---------------------------- MODULE Spec2Model ----------------------------
(***************************************************************************)
(* Model of the ECM codec (kidoz/ecm): the ECC/EDC primitives of           *)
(* src/src/eccedc.c, the sector classifier and the batch and streaming     *)
(* encoders of src/src/ecm.c, and the decoder of src/src/unecm.c.          *)
(*                                                                         *)
(* Conventions.  A byte is a number in 0..255.  A buffer or a file is a    *)
(* sequence of bytes; the C offset o of a buffer is index o + 1 of the     *)
(* sequence (At, Slice, Put below).  A uint32_t that can exceed 2^31 - 1   *)
(* is kept as its four bytes, least significant first (the EDC), or split  *)
(* into 16-bit halves (the type/count codec), because the checker's        *)
(* integers are 32-bit signed.  Stream I/O is assumed not to fail other    *)
(* than by end of input: fputc/fwrite always succeed, fread returns fewer  *)
(* bytes only at the end of the file.                                      *)
(***************************************************************************)
EXTENDS Integers, Sequences, FiniteSets, TLC

-----------------------------------------------------------------------------
(* Byte and buffer helpers (C pointer arithmetic on uint8_t buffers).       *)

Byte == 0..255

RECURSIVE XorBits(_, _, _)
XorBits(a, b, k) ==
    IF k = 0 THEN 0
    ELSE ((a + b) % 2) + 2 * XorBits(a \div 2, b \div 2, k - 1)

\* The table t as an explicit array (every entry computed once).
Tabulate(t) == [t EXCEPT ![0] = t[0]]

\* a ^ b on bytes, tabulated once.
XorTab ==
    Tabulate([a \in 0..255 |-> Tabulate([b \in 0..255 |-> XorBits(a, b, 8)])])

Xor(a, b) == XorTab[a][b]

\* buf[o], with o a C offset.
At(buf, o) == buf[o + 1]

\* The bytes buf[from .. to-1] (C offsets).
Slice(buf, from, to) == SubSeq(buf, from + 1, to)

\* memcpy(buf + o, bytes, Len(bytes)).
Put(buf, o, bytes) ==
    SubSeq(buf, 1, o) \o bytes \o SubSeq(buf, o + Len(bytes) + 1, Len(buf))

Zeros(n) == SubSeq([k \in 1..n |-> 0], 1, n)

-----------------------------------------------------------------------------
(* Constants of include/eccedc.h.                                           *)

SECTOR_SIZE_RAW == 2352
SECTOR_SIZE_MODE2 == 2336
SECTOR_USER_DATA == 2048
OFFSET_HEADER == 12
OFFSET_MODE == 15
OFFSET_MODE1_DATA == 16
OFFSET_MODE1_EDC == 2064
OFFSET_MODE1_RESERVED == 2068
OFFSET_MODE1_ECC_P == 2076
OFFSET_MODE1_ECC_Q == 2248
OFFSET_MODE2_SUBHEADER == 16
OFFSET_MODE2_FORM1_EDC == 2072
OFFSET_MODE2_FORM2_EDC == 2348
EDC_SIZE == 4
RESERVED_SIZE == 8
MODE1_ADDRESS_SIZE == 3
MODE2_SUBHEADER_SIZE == 4
MODE2_FORM1_DATA_SIZE == 2052
MODE2_FORM2_DATA_SIZE == 2328
MODE2_EDC_OFFSET == 2056
MODE2_FORM2_EDC_OFFSET == 2332
TYPE_COUNT_MAX_BITS == 32
SYNC_BYTE_START == 0
SYNC_BYTE_MIDDLE == 255
SYNC_BYTE_END == 0
SECTOR_TYPE_LITERAL == 0
SECTOR_TYPE_MODE1 == 1
SECTOR_TYPE_MODE2_FORM1 == 2
SECTOR_TYPE_MODE2_FORM2 == 3
ECM_MAGIC_E == 69
ECM_MAGIC_C == 67
ECM_MAGIC_M == 77
ECM_MAGIC_NULL == 0

(* Constants that eccedc.c uses but whose defining header lines are not     *)
(* part of the sources at hand; their values are those of the              *)
(* specification, section 4.1 (P/Q parameters, the 2340-byte ECC window    *)
(* at offset 12, the 4-byte address field at offset 12).                   *)
ADDRESS_FIELD_SIZE == 4
ADDRESS_FIELD_OFFSET == 12
ECC_DATA_OFFSET == 12
ECC_P_MAJOR == 86
ECC_P_MINOR == 24
ECC_P_MULT == 2
ECC_P_INC == 86
ECC_Q_MAJOR == 52
ECC_Q_MINOR == 43
ECC_Q_MULT == 86
ECC_Q_INC == 88

-----------------------------------------------------------------------------
(* eccedc.c: lookup tables (eccedc_init_tables).                            *)

\* j = (i << 1) ^ (i & 0x80 ? 0x11D : 0), as a uint32_t (at most 9 bits).
EccJ(i) ==
    IF i >= 128
    THEN 256 * XorBits((2 * i) \div 256, 1, 1) + Xor((2 * i) % 256, 29)
    ELSE 2 * i

\* ecc_f_lut[i] = (uint8_t)j
ecc_f_lut == Tabulate([i \in 0..255 |-> EccJ(i) % 256])

\* The index i ^ j at which the loop stores i in ecc_b_lut.
EccBIndex(i) == 256 * (EccJ(i) \div 256) + Xor(i, EccJ(i) % 256)

\* ecc_b_lut[i ^ j] = (uint8_t)i for i = 0..255; an entry that no i writes
\* keeps the 0 of static storage (the indices i ^ j are pairwise distinct).
ecc_b_lut ==
    Tabulate([k \in 0..255 |->
        IF \E i \in 0..255 : EccBIndex(i) = k
        THEN CHOOSE i \in 0..255 : EccBIndex(i) = k
        ELSE 0])

\* A uint32_t as four bytes, least significant first.
U32Zero == <<0, 0, 0, 0>>

\* edc >> 1
Shr1(e) ==
    << (e[1] \div 2) + 128 * (e[2] % 2),
       (e[2] \div 2) + 128 * (e[3] % 2),
       (e[3] \div 2) + 128 * (e[4] % 2),
       e[4] \div 2 >>

\* e ^ 0xD8018001
XorPoly(e) == << Xor(e[1], 1), Xor(e[2], 128), Xor(e[3], 1), Xor(e[4], 216) >>

\* edc = (edc >> 1) ^ (edc & 1 ? 0xD8018001 : 0), j times.
RECURSIVE EdcBits(_, _)
EdcBits(e, j) ==
    IF j = 0 THEN e
    ELSE EdcBits(IF e[1] % 2 = 1 THEN XorPoly(Shr1(e)) ELSE Shr1(e), j - 1)

edc_lut == Tabulate([i \in 0..255 |-> EdcBits(<<i, 0, 0, 0>>, 8)])

-----------------------------------------------------------------------------
(* eccedc.c: EDC.                                                           *)

\* (edc >> 8) ^ l, l being the table entry.
EdcShiftXor(e, l) ==
    << Xor(e[2], l[1]), Xor(e[3], l[2]), Xor(e[4], l[3]), l[4] >>

\* One iteration of the loop of edc_compute:
\* edc = (edc >> 8) ^ edc_lut[(edc ^ byte) & 0xFF].
EdcStep(e, byte) == EdcShiftXor(e, edc_lut[Xor(e[1], byte)])

\* The loop of edc_compute over src[lo..hi] (sequence indices), in order.
\* The range is split in halves only to keep the evaluation depth small;
\* EdcSecond runs the second half once the first has its value.
RECURSIVE EdcRange(_, _, _, _)
RECURSIVE EdcSecond(_, _, _, _)
EdcSecond(left, src, lo, hi) ==
    IF left[1] >= 0 THEN EdcRange(left, src, lo, hi) ELSE left

EdcRange(e, src, lo, hi) ==
    IF lo > hi THEN e
    ELSE IF lo = hi THEN EdcStep(e, src[lo])
    ELSE EdcSecond(EdcRange(e, src, lo, (lo + hi) \div 2), src,
                   ((lo + hi) \div 2) + 1, hi)

\* edc_compute starting from 0 whatever the seed.
edc_compute_unseeded(edc, src) == EdcRange(U32Zero, src, 1, Len(src))

\* uint32_t edc_compute(uint32_t edc, const uint8_t *src, size_t size)
edc_compute(edc, src) == EdcRange(edc, src, 1, Len(src))

\* edc_write_bytes / the four fputc of the trailer: little-endian bytes.
edc_write_bytes(edc) == << edc[1], edc[2], edc[3], edc[4] >>

\* edc_compute_block(src, size, dest): the four bytes written to dest.
edc_compute_block(src) == edc_write_bytes(edc_compute(U32Zero, src))

-----------------------------------------------------------------------------
(* eccedc.c: Reed-Solomon P/Q.                                              *)

\* The minor loop of ecc_compute_block / ecc_verify_block: returns
\* <<ecc_a, ecc_b>> after the `left` iterations that remain, the next one
\* reading src[index].  EccMinorStep is one iteration on the byte temp.
RECURSIVE EccMinor(_, _, _, _, _, _, _)
RECURSIVE EccMinorStep(_, _, _, _, _, _, _, _)
EccMinorStep(src, size, minor_inc, next, temp, ecc_a, ecc_b, left) ==
    IF temp + next >= 0
    THEN EccMinor(src, size, minor_inc,
                  IF next >= size THEN next - size ELSE next,
                  ecc_f_lut[Xor(ecc_a, temp)], Xor(ecc_b, temp), left - 1)
    ELSE <<ecc_a, ecc_b>>

EccMinor(src, size, minor_inc, index, ecc_a, ecc_b, left) ==
    IF left = 0 THEN <<ecc_a, ecc_b>>
    ELSE IF ecc_a + ecc_b >= 0
    THEN EccMinorStep(src, size, minor_inc, index + minor_inc, src[index + 1],
                      ecc_a, ecc_b, left)
    ELSE <<ecc_a, ecc_b>>

\* After the minor loop: ecc_a = ecc_b_lut[ecc_f_lut[ecc_a] ^ ecc_b]; the two
\* bytes are ecc_a and ecc_a ^ ecc_b.
EccPair(a, ecc_b) == << a, Xor(a, ecc_b) >>

EccClose(ab) == EccPair(ecc_b_lut[Xor(ecc_f_lut[ab[1]], ab[2])], ab[2])

\* The two parity bytes of one major: <<dest[major], dest[major + major_count]>>.
EccMajor(src, major_count, minor_count, major_mult, minor_inc, major) ==
    EccClose(EccMinor(src, major_count * minor_count, minor_inc,
                      (major \div 2) * major_mult + (major % 2),
                      0, 0, minor_count))

\* dest as written by ecc_compute_block from the pairs p of all majors.
EccDest(p, major_count) ==
    [k \in 1..(2 * major_count) |->
        IF k <= major_count THEN p[k - 1][1]
        ELSE p[k - 1 - major_count][2]]

\* ecc_compute_block: the 2 * major_count bytes written to dest
\* (dest[major] and dest[major + major_count] for every major).
ecc_compute_block(src, major_count, minor_count, major_mult, minor_inc) ==
    EccDest(Tabulate([major \in 0..(major_count - 1) |->
                EccMajor(src, major_count, minor_count, major_mult,
                         minor_inc, major)]),
            major_count)

\* The comparison of ecc_verify_block for one major with parity pair p.
EccSame(dest, major, major_count, p) ==
    dest[major + 1] = p[1] /\ dest[major + major_count + 1] = p[2]

\* ecc_verify_block: false as soon as a major's parity differs from dest.
ecc_verify_block(src, major_count, minor_count, major_mult, minor_inc, dest) ==
    \A major \in 0..(major_count - 1) :
        EccSame(dest, major, major_count,
                EccMajor(src, major_count, minor_count, major_mult,
                         minor_inc, major))

\* save_address zeroing the three address bytes only, not the mode byte.
save_address_msf_only(sector, zero) ==
    IF zero THEN Put(sector, ADDRESS_FIELD_OFFSET,
                     Zeros(ADDRESS_FIELD_SIZE - 1))
    ELSE sector

\* save_address(sector, address, zero): the sector afterwards.
save_address(sector, zero) ==
    IF zero THEN Put(sector, ADDRESS_FIELD_OFFSET, Zeros(ADDRESS_FIELD_SIZE))
    ELSE sector

\* restore_address(sector, address), address being the bytes saved from orig.
restore_address(sector, orig) ==
    Put(sector, ADDRESS_FIELD_OFFSET,
        Slice(orig, ADDRESS_FIELD_OFFSET,
              ADDRESS_FIELD_OFFSET + ADDRESS_FIELD_SIZE))

\* ecc_compute_block(sector + ECC_DATA_OFFSET, ..., sector + dest): the
\* sector afterwards.
EccWrite(sector, dest, major_count, minor_count, major_mult, minor_inc) ==
    Put(sector, dest,
        ecc_compute_block(Slice(sector, ECC_DATA_OFFSET, SECTOR_SIZE_RAW),
                          major_count, minor_count, major_mult, minor_inc))

\* ecc_generate computing the parity over the address as stored, whatever
\* zeroaddress says.
ecc_generate_keep_address(sector, zeroaddress) ==
    EccWrite(EccWrite(sector, OFFSET_MODE1_ECC_P,
                      ECC_P_MAJOR, ECC_P_MINOR, ECC_P_MULT, ECC_P_INC),
             OFFSET_MODE1_ECC_Q,
             ECC_Q_MAJOR, ECC_Q_MINOR, ECC_Q_MULT, ECC_Q_INC)

\* if (zeroaddress) restore_address(sector, address)
RestoreIf(zeroaddress, sector, orig) ==
    IF zeroaddress THEN restore_address(sector, orig) ELSE sector

\* void ecc_generate(uint8_t *sector, bool zeroaddress): the sector afterwards.
ecc_generate(sector, zeroaddress) ==
    RestoreIf(zeroaddress,
        EccWrite(EccWrite(save_address(sector, zeroaddress),
                          OFFSET_MODE1_ECC_P,
                          ECC_P_MAJOR, ECC_P_MINOR, ECC_P_MULT, ECC_P_INC),
                 OFFSET_MODE1_ECC_Q,
                 ECC_Q_MAJOR, ECC_Q_MINOR, ECC_Q_MULT, ECC_Q_INC),
        sector)

\* The two ecc_verify_block calls of ecc_verify on the sector s0 whose
\* address was saved (and zeroed if asked).
EccVerifyBoth(s0, destoff) ==
    /\ ecc_verify_block(Slice(s0, ECC_DATA_OFFSET, SECTOR_SIZE_RAW),
                        ECC_P_MAJOR, ECC_P_MINOR, ECC_P_MULT, ECC_P_INC,
                        Slice(s0, destoff, SECTOR_SIZE_RAW))
    /\ ecc_verify_block(Slice(s0, ECC_DATA_OFFSET, SECTOR_SIZE_RAW),
                        ECC_Q_MAJOR, ECC_Q_MINOR, ECC_Q_MULT, ECC_Q_INC,
                        Slice(s0, destoff + (OFFSET_MODE1_ECC_Q
                                             - OFFSET_MODE1_ECC_P),
                              SECTOR_SIZE_RAW))

\* ecc_verify returning from a failed P check without restore_address.
ecc_verify_p_exit_unrestored(sector, zeroaddress, destoff) ==
    [ok     |-> EccVerifyBoth(save_address(sector, zeroaddress), destoff),
     sector |-> IF ecc_verify_block(
                       Slice(save_address(sector, zeroaddress),
                             ECC_DATA_OFFSET, SECTOR_SIZE_RAW),
                       ECC_P_MAJOR, ECC_P_MINOR, ECC_P_MULT, ECC_P_INC,
                       Slice(save_address(sector, zeroaddress), destoff,
                             SECTOR_SIZE_RAW))
                THEN RestoreIf(zeroaddress,
                               save_address(sector, zeroaddress), sector)
                ELSE save_address(sector, zeroaddress)]

\* bool ecc_verify(uint8_t *sector, bool zeroaddress, uint8_t *dest), dest
\* being sector + destoff: the verdict and the sector afterwards (the
\* address is restored on both return paths).
ecc_verify(sector, zeroaddress, destoff) ==
    [ok     |-> EccVerifyBoth(save_address(sector, zeroaddress), destoff),
     sector |-> RestoreIf(zeroaddress, save_address(sector, zeroaddress),
                          sector)]

\* void eccedc_generate(uint8_t *sector, sector_type_t type): the sector
\* afterwards.
eccedc_generate(sector, type) ==
    IF type = SECTOR_TYPE_MODE1 THEN
        ecc_generate(
            Put(Put(sector, OFFSET_MODE1_EDC,
                    edc_compute_block(Slice(sector, 0, OFFSET_MODE1_EDC))),
                OFFSET_MODE1_RESERVED, Zeros(RESERVED_SIZE)),
            FALSE)
    ELSE IF type = SECTOR_TYPE_MODE2_FORM1 THEN
        ecc_generate(
            Put(sector, OFFSET_MODE2_FORM1_EDC,
                edc_compute_block(Slice(sector, OFFSET_MODE2_SUBHEADER,
                    OFFSET_MODE2_SUBHEADER + MODE2_EDC_OFFSET))),
            TRUE)
    ELSE IF type = SECTOR_TYPE_MODE2_FORM2 THEN
        Put(sector, OFFSET_MODE2_FORM2_EDC,
            edc_compute_block(Slice(sector, OFFSET_MODE2_SUBHEADER,
                OFFSET_MODE2_SUBHEADER + MODE2_FORM2_EDC_OFFSET)))
    ELSE sector

\* void sector_init_sync(uint8_t *sector)
sector_init_sync(sector) ==
    Put(sector, 0,
        <<SYNC_BYTE_START>> \o [k \in 1..10 |-> SYNC_BYTE_MIDDLE]
                            \o <<SYNC_BYTE_END>>)

\* void sector_copy_subheader(uint8_t *sector)
sector_copy_subheader(sector) ==
    Put(sector, OFFSET_MODE2_SUBHEADER,
        Slice(sector, OFFSET_MODE2_SUBHEADER + MODE2_SUBHEADER_SIZE,
              OFFSET_MODE2_SUBHEADER + 2 * MODE2_SUBHEADER_SIZE))

-----------------------------------------------------------------------------
(* ecm.c: sector classifier.                                                *)

INPUT_QUEUE_PADDING == 16
INPUT_QUEUE_SIZE == 1048576 + INPUT_QUEUE_PADDING

\* check_sync_pattern with the loop over the middle bytes ending one early
\* (i < 10 instead of i <= 10).
check_sync_pattern_short(sector) ==
    IF At(sector, 0) # SYNC_BYTE_START THEN FALSE
    ELSE IF \E i \in 1..9 : At(sector, i) # SYNC_BYTE_MIDDLE THEN FALSE
    ELSE At(sector, 11) = SYNC_BYTE_END

\* static bool check_sync_pattern(const uint8_t *sector)
check_sync_pattern(sector) ==
    IF At(sector, 0) # SYNC_BYTE_START THEN FALSE
    ELSE IF \E i \in 1..10 : At(sector, i) # SYNC_BYTE_MIDDLE THEN FALSE
    ELSE At(sector, 11) = SYNC_BYTE_END

\* static bool check_reserved_zero(const uint8_t *sector)
check_reserved_zero(sector) ==
    \A i \in 0..(RESERVED_SIZE - 1) : At(sector, OFFSET_MODE1_RESERVED + i) = 0

\* static bool check_subheader_dup(const uint8_t *sector), sector pointing
\* at the eight subheader bytes.
check_subheader_dup(sector) ==
    /\ At(sector, 0) = At(sector, 4)
    /\ At(sector, 1) = At(sector, 5)
    /\ At(sector, 2) = At(sector, 6)
    /\ At(sector, 3) = At(sector, 7)

\* static bool check_edc_match(const uint8_t *sector, uint32_t edc, int offset)
check_edc_match(sector, edc, offset) ==
    /\ At(sector, offset + 0) = edc[1]
    /\ At(sector, offset + 1) = edc[2]
    /\ At(sector, offset + 2) = edc[3]
    /\ At(sector, offset + 3) = edc[4]

\* What a branch of check_type_raw has found once ecc_verify has said v:
\* type if the ECC matched, else literal so far; the window is as
\* ecc_verify left it.
AfterEcc(v, type) ==
    [type |-> IF v.ok THEN type ELSE SECTOR_TYPE_LITERAL, sector |-> v.sector]

\* The Mode 1 branch of check_type_raw (can_be_mode1), reserved bytes zero.
CheckMode1(sector) ==
    IF ~check_edc_match(sector,
            edc_compute(U32Zero, Slice(sector, 0, OFFSET_MODE1_EDC)),
            OFFSET_MODE1_EDC)
    THEN [type |-> SECTOR_TYPE_LITERAL, sector |-> sector]
    ELSE AfterEcc(ecc_verify(sector, FALSE, OFFSET_MODE1_ECC_P),
                  SECTOR_TYPE_MODE1)

\* The Mode 2 Form 2 branch of check_type_raw (can_be_mode2_form2).
CheckMode2Form2(sector) ==
    IF check_edc_match(sector,
           edc_compute(U32Zero,
               Slice(sector, OFFSET_MODE2_SUBHEADER,
                     OFFSET_MODE2_SUBHEADER + MODE2_FORM2_EDC_OFFSET)),
           OFFSET_MODE2_SUBHEADER + MODE2_FORM2_EDC_OFFSET)
    THEN [type |-> SECTOR_TYPE_MODE2_FORM2, sector |-> sector]
    ELSE [type |-> SECTOR_TYPE_LITERAL, sector |-> sector]

\* The Mode 2 Form 1 branch of check_type_raw (can_be_mode2_form1): the Form
\* 1 EDC matches and the ECC verifies.
CheckMode2Form1(sector) ==
    IF check_edc_match(sector,
           edc_compute(U32Zero,
               Slice(sector, OFFSET_MODE2_SUBHEADER,
                     OFFSET_MODE2_SUBHEADER + MODE2_EDC_OFFSET)),
           OFFSET_MODE2_SUBHEADER + MODE2_EDC_OFFSET)
    THEN AfterEcc(ecc_verify(sector, TRUE, 2076), SECTOR_TYPE_MODE2_FORM1)
    ELSE [type |-> SECTOR_TYPE_LITERAL, sector |-> sector]

\* r unless it is literal, then what the Form 2 check says of the window as
\* r left it.
OrElse(r) ==
    IF r.type # SECTOR_TYPE_LITERAL THEN r ELSE CheckMode2Form2(r.sector)

\* The Mode 2 branches of check_type_raw: Form 1 first, then Form 2 (the
\* window is as it was after a failed Form 1 check).
CheckMode2(sector) == OrElse(CheckMode2Form1(sector))

\* static sector_type_t check_type_raw(uint8_t *sector): the type returned
\* and the 2352 bytes of the window on return.
check_type_raw(sector) ==
    IF ~check_sync_pattern(sector)
    THEN [type |-> SECTOR_TYPE_LITERAL, sector |-> sector]
    ELSE IF At(sector, OFFSET_MODE) = 1
    THEN IF ~check_reserved_zero(sector)
         THEN [type |-> SECTOR_TYPE_LITERAL, sector |-> sector]
         ELSE CheckMode1(sector)
    ELSE IF At(sector, OFFSET_MODE) = 2
    THEN IF ~check_subheader_dup(Slice(sector, OFFSET_MODE2_SUBHEADER,
                                       OFFSET_MODE2_SUBHEADER + 8))
         THEN [type |-> SECTOR_TYPE_LITERAL, sector |-> sector]
         ELSE CheckMode2(sector)
    ELSE [type |-> SECTOR_TYPE_LITERAL, sector |-> sector]

-----------------------------------------------------------------------------
(* ecm.c / unecm.c: the type/count codec.                                   *)

\* count-- on an unsigned: the new value as 16-bit halves (0 wraps to
\* 0xFFFFFFFF).  count is given in 0 .. 2^31 - 1.
Dec32(count) ==
    IF count = 0 THEN [hi |-> 65535, lo |-> 65535]
    ELSE [hi |-> (count - 1) \div 65536, lo |-> (count - 1) % 65536]

\* The while (count) loop of write_type_count, count < 2^27.
RECURSIVE WriteCountTail(_)
WriteCountTail(count) ==
    IF count = 0 THEN <<>>
    ELSE << (IF count >= 128 THEN 128 ELSE 0) + (count % 128) >>
         \o WriteCountTail(count \div 128)

\* write_type_count with the continuation flag of the first byte set for
\* count > 32 instead of count >= 32.
write_type_count_late_flag(type, count) ==
    LET c == Dec32(count)
    IN  << (IF c.hi > 0 \/ c.lo > 32 THEN 128 ELSE 0)
           + 4 * (c.lo % 32) + type >>
        \o WriteCountTail(c.hi * 2048 + (c.lo \div 32))

\* static int write_type_count(FILE *out, unsigned type, unsigned count):
\* the bytes written.
write_type_count(type, count) ==
    LET c == Dec32(count)
    IN  << (IF c.hi > 0 \/ c.lo >= 32 THEN 128 ELSE 0)
           + 4 * (c.lo % 32) + type >>
        \o WriteCountTail(c.hi * 2048 + (c.lo \div 32))

\* num |= (c & 0x7F) << bits with num wider than 32 bits: the bits of the
\* fifth byte shifted beyond bit 31 are kept.
OrShifted_wide(num, c, bits) ==
    LET v == c % 128
    IN  IF bits = 5 THEN [hi |-> num.hi, lo |-> num.lo + 32 * v]
        ELSE IF bits = 12
        THEN [hi |-> num.hi + (v \div 16), lo |-> num.lo + 4096 * (v % 16)]
        ELSE IF bits = 19 THEN [hi |-> num.hi + 8 * v, lo |-> num.lo]
        ELSE [hi |-> num.hi + 1024 * v, lo |-> num.lo]

\* num |= ((unsigned)(c & 0x7F)) << bits on 16-bit halves; the bits shifted
\* beyond bit 31 are lost.  The fields never overlap, so | is +.
OrShifted(num, c, bits) ==
    LET v == c % 128
    IN  IF bits = 5 THEN [hi |-> num.hi, lo |-> num.lo + 32 * v]
        ELSE IF bits = 12
        THEN [hi |-> num.hi + (v \div 16), lo |-> num.lo + 4096 * (v % 16)]
        ELSE IF bits = 19 THEN [hi |-> num.hi + 8 * v, lo |-> num.lo]
        ELSE [hi |-> num.hi + 1024 * (v % 64), lo |-> num.lo]

\* The loop of read_type_count without the test of bits.
RECURSIVE ReadCountTail_unbounded(_, _, _, _, _, _)
ReadCountTail_unbounded(in, pos, c, type, num, bits) ==
    IF c < 128 THEN [ok |-> TRUE, type |-> type, num |-> num, pos |-> pos]
    ELSE IF pos >= Len(in)
    THEN [ok |-> FALSE, type |-> type, num |-> num, pos |-> pos]
    ELSE ReadCountTail_unbounded(in, pos + 1, At(in, pos), type,
                                 IF bits >= TYPE_COUNT_MAX_BITS THEN num
                                 ELSE OrShifted(num, At(in, pos), bits),
                                 bits + 7)

\* The while (c & 0x80) loop of read_type_count, c being the byte read last
\* and pos the position of file in.
RECURSIVE ReadCountTail(_, _, _, _, _, _)
ReadCountTail(in, pos, c, type, num, bits) ==
    IF c < 128 THEN [ok |-> TRUE, type |-> type, num |-> num, pos |-> pos]
    ELSE IF pos >= Len(in)
    THEN [ok |-> FALSE, type |-> type, num |-> num, pos |-> pos]
    ELSE IF bits >= TYPE_COUNT_MAX_BITS
    THEN [ok |-> FALSE, type |-> type, num |-> num, pos |-> pos + 1]
    ELSE ReadCountTail(in, pos + 1, At(in, pos), type,
                       OrShifted(num, At(in, pos), bits), bits + 7)

\* static bool read_type_count(FILE *in, unsigned *type, unsigned *num), in
\* being positioned at pos: the verdict, *type, *num (as 16-bit halves) and
\* the position afterwards.
read_type_count(in, pos) ==
    IF pos >= Len(in)
    THEN [ok |-> FALSE, type |-> 0, num |-> [hi |-> 0, lo |-> 0], pos |-> pos]
    ELSE LET c == At(in, pos)
         IN  ReadCountTail(in, pos + 1, c, c % 4,
                           [hi |-> 0, lo |-> (c \div 4) % 32], 5)

-----------------------------------------------------------------------------
(* Files.  A FILE is its contents; a read position is a byte offset.        *)

Min(a, b) == IF a < b THEN a ELSE b

\* fread(buf, 1, n, f) with f positioned at pos: the bytes read (fewer than
\* n only at the end of the file).
Fread(f, pos, n) == Slice(f, pos, Min(pos + n, Len(f)))

-----------------------------------------------------------------------------
(* ecm.c: payload extraction.                                               *)

\* The switch with the image-wide EDC taken over all 2352 bytes of a sector
\* of any type.
SectorPayload_whole_sector_edc(buf, edc, type) ==
    IF type \in {SECTOR_TYPE_MODE1, SECTOR_TYPE_MODE2_FORM1,
                 SECTOR_TYPE_MODE2_FORM2}
    THEN [ok  |-> TRUE,
          edc |-> edc_compute(edc, Slice(buf, 0, SECTOR_SIZE_RAW)),
          out |-> IF type = SECTOR_TYPE_MODE1
                  THEN Slice(buf, OFFSET_HEADER,
                             OFFSET_HEADER + MODE1_ADDRESS_SIZE)
                       \o Slice(buf, OFFSET_MODE1_DATA,
                                OFFSET_MODE1_DATA + SECTOR_USER_DATA)
                  ELSE Slice(buf, OFFSET_MODE2_SUBHEADER + MODE2_SUBHEADER_SIZE,
                             OFFSET_MODE2_SUBHEADER + MODE2_SUBHEADER_SIZE
                                 + (IF type = SECTOR_TYPE_MODE2_FORM1
                                    THEN MODE2_FORM1_DATA_SIZE
                                    ELSE MODE2_FORM2_DATA_SIZE))]
    ELSE [ok |-> FALSE, edc |-> edc, out |-> <<>>]

\* The switch of write_sector_data / encode_sector_from_buffer on a full
\* sector buf: the image-wide EDC afterwards and the bytes written.
SectorPayload(buf, edc, type) ==
    IF type = SECTOR_TYPE_MODE1 THEN
        [ok  |-> TRUE,
         edc |-> edc_compute(edc, Slice(buf, 0, SECTOR_SIZE_RAW)),
         out |-> Slice(buf, OFFSET_HEADER, OFFSET_HEADER + MODE1_ADDRESS_SIZE)
                 \o Slice(buf, OFFSET_MODE1_DATA,
                          OFFSET_MODE1_DATA + SECTOR_USER_DATA)]
    ELSE IF type = SECTOR_TYPE_MODE2_FORM1 THEN
        [ok  |-> TRUE,
         edc |-> edc_compute(edc, Slice(buf, OFFSET_MODE2_SUBHEADER,
                     OFFSET_MODE2_SUBHEADER + SECTOR_SIZE_MODE2)),
         out |-> Slice(buf, OFFSET_MODE2_SUBHEADER + MODE2_SUBHEADER_SIZE,
                       OFFSET_MODE2_SUBHEADER + MODE2_SUBHEADER_SIZE
                           + MODE2_FORM1_DATA_SIZE)]
    ELSE IF type = SECTOR_TYPE_MODE2_FORM2 THEN
        [ok  |-> TRUE,
         edc |-> edc_compute(edc, Slice(buf, OFFSET_MODE2_SUBHEADER,
                     OFFSET_MODE2_SUBHEADER + SECTOR_SIZE_MODE2)),
         out |-> Slice(buf, OFFSET_MODE2_SUBHEADER + MODE2_SUBHEADER_SIZE,
                       OFFSET_MODE2_SUBHEADER + MODE2_SUBHEADER_SIZE
                           + MODE2_FORM2_DATA_SIZE)]
    ELSE [ok |-> FALSE, edc |-> edc, out |-> <<>>]

\* encode_sector_from_buffer leaving the image-wide EDC as it was.
encode_sector_from_buffer_stale_edc(buf, edc, type) ==
    [ok |-> TRUE, edc |-> edc, out |-> SectorPayload(buf, edc, type).out]

\* static int encode_sector_from_buffer(buf, out, edc, type)
encode_sector_from_buffer(buf, edc, type) == SectorPayload(buf, edc, type)

\* The result r of a read-and-write step, with the position afterwards.
WithPos(r, pos) == [ok |-> r.ok, edc |-> r.edc, out |-> r.out, pos |-> pos]

\* write_sector_data after its fread returned buf.
WriteSectorRead(buf, pos, edc, type) ==
    IF Len(buf) # SECTOR_SIZE_RAW
    THEN [ok |-> FALSE, edc |-> edc, out |-> <<>>, pos |-> pos + Len(buf)]
    ELSE WithPos(SectorPayload(buf, edc, type), pos + SECTOR_SIZE_RAW)

\* static int write_sector_data(in, out, edc, type, progress), in being
\* positioned at pos: verdict, EDC, bytes written, position afterwards.
write_sector_data(in, pos, edc, type) ==
    WriteSectorRead(Fread(in, pos, SECTOR_SIZE_RAW), pos, edc, type)

\* The while (count) loop of flush_sector_run for a literal run;
\* FlushLiteralRead is the iteration after its fread of b bytes returned buf.
RECURSIVE FlushLiteral(_, _, _, _, _)
RECURSIVE FlushLiteralRead(_, _, _, _, _, _, _)
FlushLiteralRead(in, pos, edc, count, out, b, buf) ==
    IF Len(buf) # b
    THEN [ok |-> FALSE, edc |-> edc, out |-> out, pos |-> pos + Len(buf)]
    ELSE FlushLiteral(in, pos + b, edc_compute(edc, buf), count - b,
                      out \o buf)

FlushLiteral(in, pos, edc, count, out) ==
    IF count = 0 THEN [ok |-> TRUE, edc |-> edc, out |-> out, pos |-> pos]
    ELSE FlushLiteralRead(in, pos, edc, count, out,
             Min(count, SECTOR_SIZE_RAW),
             Fread(in, pos, Min(count, SECTOR_SIZE_RAW)))

\* The while (count--) loop of flush_sector_run for a sector run;
\* FlushSectorsWritten is the iteration after write_sector_data returned r.
RECURSIVE FlushSectors(_, _, _, _, _, _)
RECURSIVE FlushSectorsWritten(_, _, _, _, _)
FlushSectorsWritten(in, type, count, out, r) ==
    IF ~r.ok
    THEN [ok |-> FALSE, edc |-> r.edc, out |-> out, pos |-> r.pos]
    ELSE FlushSectors(in, r.pos, r.edc, type, count - 1, out \o r.out)

FlushSectors(in, pos, edc, type, count, out) ==
    IF count = 0 THEN [ok |-> TRUE, edc |-> edc, out |-> out, pos |-> pos]
    ELSE FlushSectorsWritten(in, type, count, out,
                             write_sector_data(in, pos, edc, type))

\* static int flush_sector_run(edc, type, count, in, out, progress), in
\* being positioned at pos: verdict, EDC, bytes written, position.
flush_sector_run(edc, type, count, in, pos) ==
    IF type = SECTOR_TYPE_LITERAL
    THEN FlushLiteral(in, pos, edc, count, write_type_count(type, count))
    ELSE FlushSectors(in, pos, edc, type, count, write_type_count(type, count))

\* static size_t sector_size_for_type(sector_type_t type)
sector_size_for_type(type) ==
    IF type \in {SECTOR_TYPE_LITERAL, SECTOR_TYPE_MODE1,
                 SECTOR_TYPE_MODE2_FORM1, SECTOR_TYPE_MODE2_FORM2}
    THEN SECTOR_SIZE_RAW
    ELSE 1

\* The magic header written by both encoders.
MagicHeader == <<ECM_MAGIC_E, ECM_MAGIC_C, ECM_MAGIC_M, ECM_MAGIC_NULL>>

-----------------------------------------------------------------------------
(* unecm.c: sector reconstruction.                                          *)

\* to_bcd returning the value in binary.
to_bcd_binary(value) == value % 256

\* static uint8_t to_bcd(uint8_t value)
to_bcd(value) == (((value \div 10) * 16) + (value % 10)) % 256

\* sector_to_msf without the 150-frame pregap.
sector_to_msf_no_pregap(sector) ==
    << to_bcd(((sector \div 75) \div 60) % 256),
       to_bcd(((sector \div 75) % 60) % 256),
       to_bcd((sector % 75) % 256) >>

\* static void sector_to_msf(uint32_t sector, uint8_t *msf): the three bytes.
sector_to_msf(sector) ==
    LET frame == sector + 150
    IN  << to_bcd(((frame \div 75) \div 60) % 256),
           to_bcd(((frame \div 75) % 60) % 256),
           to_bcd((frame % 75) % 256) >>

\* static uint32_t get_current_sector(const output_tracker_t *tracker)
get_current_sector(bytes_written) == bytes_written \div SECTOR_SIZE_RAW

\* static void init_mode2_sector(uint8_t *sector, uint32_t sector_num)
init_mode2_sector(sector_num) ==
    Put(Put(sector_init_sync(Zeros(SECTOR_SIZE_RAW)), OFFSET_HEADER,
            sector_to_msf(sector_num)),
        OFFSET_MODE, <<2>>)

\* read_magic_header with the last byte of the magic left unchecked.
read_magic_header_three_bytes(in) ==
    IF Len(in) < 4 THEN [ok |-> FALSE, pos |-> Len(in)]
    ELSE [ok |-> Slice(in, 0, 3) = Slice(MagicHeader, 0, 3), pos |-> 4]

\* static bool read_magic_header(FILE *in): verdict and position afterwards.
read_magic_header(in) ==
    IF Len(in) < 4 THEN [ok |-> FALSE, pos |-> Len(in)]
    ELSE [ok |-> Slice(in, 0, 4) = MagicHeader, pos |-> 4]

\* A decoded sector with the image-wide EDC taken over all its 2352 bytes.
Decoded_whole_sector(s, pos, checkedc, from, size) ==
    [ret |-> 0, pos |-> pos, edc |-> edc_compute(checkedc, s), out |-> s]

\* What a decode_* function returns for the finished sector s: ret 0, the
\* position, the image-wide EDC extended by size bytes from s + from, and s.
Decoded(s, pos, checkedc, from, size) ==
    [ret |-> 0, pos |-> pos,
     edc |-> edc_compute(checkedc, Slice(s, from, from + size)),
     out |-> s]

\* decode_mode1_sector after its two freads returned addr and data.
DecodeMode1Read(addr, data, pos, checkedc) ==
    IF Len(addr) # MODE1_ADDRESS_SIZE
    THEN [ret |-> -1, pos |-> pos + Len(addr), edc |-> checkedc, out |-> <<>>]
    ELSE IF Len(data) # SECTOR_USER_DATA
    THEN [ret |-> -1, pos |-> pos + MODE1_ADDRESS_SIZE + Len(data),
          edc |-> checkedc, out |-> <<>>]
    ELSE Decoded(
             eccedc_generate(
                 Put(Put(Put(sector_init_sync(Zeros(SECTOR_SIZE_RAW)),
                             OFFSET_MODE, <<1>>),
                         OFFSET_HEADER, addr),
                     OFFSET_MODE1_DATA, data),
                 SECTOR_TYPE_MODE1),
             pos + MODE1_ADDRESS_SIZE + SECTOR_USER_DATA, checkedc, 0,
             SECTOR_SIZE_RAW)

\* static int decode_mode1_sector(in, out, sector, checkedc, tracker), in
\* being positioned at pos: ret, position, EDC and the sector written.  The
\* second fread happens only after a full first one.
decode_mode1_sector(in, pos, checkedc) ==
    DecodeMode1Read(Fread(in, pos, MODE1_ADDRESS_SIZE),
                    Fread(in, pos + MODE1_ADDRESS_SIZE, SECTOR_USER_DATA),
                    pos, checkedc)

\* decode_mode2_form1_sector / decode_mode2_form2_sector after the fread of
\* size bytes returned data; they differ in the size and in the type passed
\* to eccedc_generate only.
DecodeMode2Read(data, pos, checkedc, bytes_written, size, type) ==
    IF Len(data) # size
    THEN [ret |-> -1, pos |-> pos + Len(data), edc |-> checkedc, out |-> <<>>]
    ELSE Decoded(
             eccedc_generate(
                 sector_copy_subheader(
                     Put(init_mode2_sector(get_current_sector(bytes_written)),
                         OFFSET_MODE2_SUBHEADER + MODE2_SUBHEADER_SIZE, data)),
                 type),
             pos + size, checkedc, OFFSET_MODE2_SUBHEADER,
             SECTOR_SIZE_MODE2)

DecodeMode2(in, pos, checkedc, bytes_written, size, type) ==
    DecodeMode2Read(Fread(in, pos, size), pos, checkedc, bytes_written, size,
                    type)

decode_mode2_form1_sector(in, pos, checkedc, bytes_written) ==
    DecodeMode2(in, pos, checkedc, bytes_written, MODE2_FORM1_DATA_SIZE,
                SECTOR_TYPE_MODE2_FORM1)

decode_mode2_form2_sector(in, pos, checkedc, bytes_written) ==
    DecodeMode2(in, pos, checkedc, bytes_written, MODE2_FORM2_DATA_SIZE,
                SECTOR_TYPE_MODE2_FORM2)

-----------------------------------------------------------------------------
(* State.  An encoder or decoder job works on three files (the raw image,   *)
(* the ECM stream, the decoder's output) with the local variables of        *)
(* ecmify / ecmify_streaming / unecmify.  Two harnesses exercise the        *)
(* type/count codec and the sector generator / classifier on their own.     *)

VARIABLES
    pc,                 \* where the pipeline of encoder / decoder jobs stands
    round,              \* which job of the pipeline is running
    image,              \* the raw image file (encoder input)
    ecm,                \* the ECM stream file (encoder output, decoder input)
    outfile,            \* the decoder's output file
    inputqueue,         \* ecmify: bytes held from inputqueue + PADDING on
                        \* (ecmify_streaming: buf + PADDING)
    inedc, curtype, curtypecount, curtype_in_start, incheckpos, inbufferpos,
    intotallength, inqueuestart, dataavail, first_run,
    total_in,           \* ecmify_streaming: bytes read so far
    checkedc,           \* unecmify: image-wide EDC of what was written
    bytes_written,      \* unecmify: tracker.bytes_written
    inpos,              \* unecmify: read position in the stream
    type, num,          \* unecmify: the record being decoded, what is left
    result,             \* return value of the job that ran last
    hist,               \* history: the outputs of the earlier jobs
    tc,                 \* type/count codec harness
    sect,               \* sector harness
    conv,               \* sector_to_msf harness
    chain,              \* edc_compute chaining harness
    once,               \* eccedc_init: the once flag, the tables, the callers
    run,                \* ecmify: the counters of a long literal run
    scan                \* ecmify: the counters of the scan of a long image

fileVars == <<image, ecm, outfile>>

encVars == <<inputqueue, inedc, curtype, curtypecount, curtype_in_start,
             incheckpos, inbufferpos, intotallength, inqueuestart, dataavail,
             first_run, total_in>>

decVars == <<checkedc, bytes_written, inpos, type, num>>

pipeVars == <<pc, round, fileVars, encVars, decVars, result, hist>>

unitVars == <<conv, chain, once, run, scan>>

vars == <<pipeVars, tc, sect, unitVars>>

\* No job has finished yet and the stream has not been damaged.  damage
\* names what was done to the stream before a decoding and at the offset at
\* of the stream where.
HistNone ==
    [out0 |-> <<>>, ecm1 |-> <<>>, out1 |-> <<>>, res1 |-> -1,
     damage |-> "none", at |-> 0]

\* No job has run: the locals as ecmify and unecmify initialise them.
EncoderFresh ==
    /\ inputqueue = <<>> /\ inedc = U32Zero
    /\ curtype = SECTOR_TYPE_LITERAL /\ curtypecount = 0
    /\ curtype_in_start = 0 /\ incheckpos = 0 /\ inbufferpos = 0
    /\ intotallength = -1 /\ inqueuestart = 0 /\ dataavail = 0
    /\ first_run = TRUE /\ total_in = 0

DecoderFresh ==
    /\ checkedc = U32Zero /\ bytes_written = 0 /\ inpos = 0
    /\ type = 0 /\ num = 0

PipelineIdle ==
    /\ pc = "idle" /\ round = 0 /\ result = 0
    /\ image = <<>> /\ ecm = <<>> /\ outfile = <<>>
    /\ EncoderFresh /\ DecoderFresh
    /\ hist = HistNone

TcIdle == tc = [pc |-> "idle"]

SectIdle == sect = [pc |-> "idle"]

ConvIdle == conv = [pc |-> "idle"]

ChainIdle == chain = [pc |-> "idle"]

OnceIdle == once = [pc |-> "idle"]

RunIdle == run = [pc |-> "idle"]

ScanIdle == scan = [pc |-> "idle"]

UnitsIdle == ConvIdle /\ ChainIdle /\ OnceIdle /\ RunIdle /\ ScanIdle

-----------------------------------------------------------------------------
(* The images and streams the jobs start from.                              *)

\* A raw sector with the sync pattern, the address msf, the given mode byte
\* and bytes from offset 16 on; the check fields are still to be generated.
RawSector(msf, mode, bytes) ==
    Put(Put(Put(sector_init_sync(Zeros(SECTOR_SIZE_RAW)), OFFSET_HEADER, msf),
            OFFSET_MODE, <<mode>>),
        OFFSET_MODE1_DATA, bytes)

\* n pattern bytes.
Pattern(n, a, b) == SubSeq([k \in 1 .. n |-> (a * k + b) % 256], 1, n)

\* The pieces images are made of:
\*   1  a Mode 1 sector with address 00:02:00,
\*   2  a Mode 2 Form 1 sector with address 00:02:00,
\*   3  a Mode 2 Form 2 sector with address 00:02:01,
\*   4  five bytes that are no sector,
\*   5  the Mode 1 sector with one ECC byte damaged.
Mode1Piece ==
    eccedc_generate(RawSector(<<0, 2, 0>>, 1, Pattern(SECTOR_USER_DATA, 1, 0)),
                    SECTOR_TYPE_MODE1)

Form1Piece ==
    eccedc_generate(
        RawSector(<<0, 2, 0>>, 2,
                  <<0, 0, 8, 0, 0, 0, 8, 0>> \o Pattern(SECTOR_USER_DATA, 7, 1)),
        SECTOR_TYPE_MODE2_FORM1)

Form2Piece ==
    eccedc_generate(
        RawSector(<<0, 2, 1>>, 2,
                  <<0, 0, 32, 0, 0, 0, 32, 0>> \o Pattern(2324, 11, 2)),
        SECTOR_TYPE_MODE2_FORM2)

ShortPiece == <<1, 2, 3, 4, 5>>

DamagedPiece == Put(Mode1Piece, 2200, <<Xor(At(Mode1Piece, 2200), 255)>>)

Pieces == <<Mode1Piece, Form1Piece, Form2Piece, ShortPiece, DamagedPiece>>

\* Images 0 .. NumImages - 1 are tried: the piece sequences in order of
\* length (the empty image, the five single pieces, the 25 pairs, ...).
NumImages == 31

RECURSIVE ImageKinds(_, _)
ImageKinds(k, n) ==
    IF k = 0 THEN <<>>
    ELSE ImageKinds((k - 1) \div n, n) \o <<((k - 1) % n) + 1>>

RECURSIVE Concat(_, _)
Concat(kinds, palette) ==
    IF kinds = <<>> THEN <<>>
    ELSE palette[Head(kinds)] \o Concat(Tail(kinds), palette)

\* A stream written by hand, as the decoder's tests write theirs: the magic
\* header, the bytes as one literal record (none for no bytes), the end
\* marker FC FF FF FF 7F and the EDC of the bytes.
HandStream(bytes) ==
    MagicHeader
    \o (IF bytes = <<>> THEN <<>>
        ELSE write_type_count(SECTOR_TYPE_LITERAL, Len(bytes)) \o bytes)
    \o <<252, 255, 255, 255, 127>>
    \o edc_write_bytes(edc_compute(U32Zero, bytes))

-----------------------------------------------------------------------------
(* The pipeline: a hand-written stream E0 is decoded (round 0); the decoded *)
(* image is encoded by ecmify and decoded again (round 1), then encoded by  *)
(* ecmify_streaming and decoded again (round 2).  Reads and writes fail     *)
(* only by reaching the end of a file.                                      *)

Init ==
    /\ TcIdle /\ SectIdle /\ UnitsIdle
    /\ pc = "call_unecmify" /\ round = 0 /\ result = 0
    /\ image = <<>> /\ outfile = <<>>
    /\ \E palette \in {Pieces} :
       \E k \in 0 .. (NumImages - 1) :
       \E bytes \in {Concat(ImageKinds(k, Len(palette)), palette)} :
          ecm = HandStream(bytes)
    /\ EncoderFresh /\ DecoderFresh
    /\ hist = HistNone

\* unecmify returning 0 from its error exits.
UnecmifyReturn_success(ret) ==
    /\ pc' = "unecm_done" /\ result' = 0
    /\ UNCHANGED <<type, num, checkedc, bytes_written, outfile>>

\* unecmify returns with ret, whatever it wrote staying in the output file.
UnecmifyReturn(ret) ==
    /\ pc' = "unecm_done" /\ result' = ret
    /\ UNCHANGED <<type, num, checkedc, bytes_written, outfile>>

\* unecmify is called on the stream: its initialisations and
\* read_magic_header.
UnecmifyStart ==
    /\ pc \in {"call_unecmify", "ecm_done", "ecms_done"} /\ result = 0
    /\ LET h == read_magic_header(ecm)
       IN  /\ inpos' = h.pos
           /\ pc' = IF h.ok THEN "unecm" ELSE "unecm_done"
           /\ result' = IF h.ok THEN 0 ELSE 1
    /\ checkedc' = U32Zero /\ bytes_written' = 0 /\ type' = 0 /\ num' = 0
    /\ outfile' = <<>>
    /\ UNCHANGED <<round, image, ecm, encVars, hist, tc, sect, unitVars>>

\* The sentinel value of num, 0xFFFFFFFF, as 16-bit halves.
NumSentinel == [hi |-> 65535, lo |-> 65535]

\* "Read and verify final EDC" with only the length of the trailer checked.
TrailerCheck_length_only(t, edc) == IF Len(t) = EDC_SIZE THEN 0 ELSE 1

\* "Read and verify final EDC": what unecmify returns once the loop is left,
\* t being what the fread of EDC_SIZE bytes got.
TrailerCheck(t, edc) ==
    IF Len(t) = EDC_SIZE /\ t = edc_write_bytes(edc) THEN 0 ELSE 1

\* for (;;): read_type_count, the sentinel test with the trailer check that
\* follows the loop, num++ and the range test.
UnecmifyRecord ==
    /\ pc = "unecm"
    /\ \E r \in {read_type_count(ecm, inpos)} :
          IF ~r.ok
          THEN inpos' = r.pos /\ UnecmifyReturn(1)
          ELSE IF r.num = NumSentinel
          THEN \E t \in {Fread(ecm, r.pos, EDC_SIZE)} :
                  /\ inpos' = r.pos + Len(t)
                  /\ UnecmifyReturn(TrailerCheck(t, checkedc))
          ELSE IF r.num.hi >= 32768 \/ (r.num.hi = 32767 /\ r.num.lo = 65535)
          THEN inpos' = r.pos /\ UnecmifyReturn(1)
          ELSE /\ inpos' = r.pos
               /\ type' = r.type
               /\ num' = r.num.hi * 65536 + r.num.lo + 1
               /\ pc' = IF r.type = SECTOR_TYPE_LITERAL
                        THEN "unecm_literal" ELSE "unecm_sectors"
               /\ UNCHANGED <<result, checkedc, bytes_written, outfile>>
    /\ UNCHANGED <<round, image, ecm, encVars, hist, tc, sect, unitVars>>

\* while (num): one chunk of a literal record.
UnecmifyLiteral ==
    /\ pc = "unecm_literal"
    /\ \E b \in {IF num > SECTOR_SIZE_RAW THEN SECTOR_SIZE_RAW ELSE num} :
       \E chunk \in {Fread(ecm, inpos, b)} :
          /\ inpos' = inpos + Len(chunk)
          /\ IF Len(chunk) # b
             THEN /\ pc' = "unecm_done" /\ result' = 1
                  /\ UNCHANGED <<num, checkedc, bytes_written, outfile>>
             ELSE /\ checkedc' = edc_compute(checkedc, chunk)
                  /\ outfile' = outfile \o chunk
                  /\ bytes_written' = bytes_written + b
                  /\ num' = num - b
                  /\ pc' = IF num - b = 0 THEN "unecm" ELSE "unecm_literal"
                  /\ UNCHANGED result
    /\ UNCHANGED <<type, round, image, ecm, encVars, hist, tc, sect, unitVars>>

\* The switch of the sector loop of unecmify.
DecodeSector ==
    IF type = SECTOR_TYPE_MODE1
    THEN decode_mode1_sector(ecm, inpos, checkedc)
    ELSE IF type = SECTOR_TYPE_MODE2_FORM1
    THEN decode_mode2_form1_sector(ecm, inpos, checkedc, bytes_written)
    ELSE decode_mode2_form2_sector(ecm, inpos, checkedc, bytes_written)

\* The sector loop of unecmify writing the sector buffer also when the read
\* of its payload came up short.
UnecmifySector_write_partial ==
    /\ pc = "unecm_sectors"
    /\ \E d \in {DecodeSector} :
          /\ inpos' = d.pos
          /\ num' = num - 1
          /\ IF d.ret # 0
             THEN /\ pc' = "unecm_done" /\ result' = 1
                  /\ outfile' = outfile
                                \o sector_init_sync(Zeros(SECTOR_SIZE_RAW))
                  /\ UNCHANGED <<checkedc, bytes_written>>
             ELSE /\ checkedc' = d.edc
                  /\ outfile' = outfile \o d.out
                  /\ bytes_written' = bytes_written + SECTOR_SIZE_RAW
                  /\ pc' = IF num - 1 = 0 THEN "unecm" ELSE "unecm_sectors"
                  /\ UNCHANGED result
    /\ UNCHANGED <<type, round, image, ecm, encVars, hist, tc, sect, unitVars>>

\* while (num--): one sector of a sector record.
UnecmifySector ==
    /\ pc = "unecm_sectors"
    /\ \E d \in {DecodeSector} :
          /\ inpos' = d.pos
          /\ num' = num - 1
          /\ IF d.ret # 0
             THEN /\ pc' = "unecm_done" /\ result' = 1
                  /\ UNCHANGED <<checkedc, bytes_written, outfile>>
             ELSE /\ checkedc' = d.edc
                  /\ outfile' = outfile \o d.out
                  /\ bytes_written' = bytes_written + SECTOR_SIZE_RAW
                  /\ pc' = IF num - 1 = 0 THEN "unecm" ELSE "unecm_sectors"
                  /\ UNCHANGED result
    /\ UNCHANGED <<type, round, image, ecm, encVars, hist, tc, sect, unitVars>>

\* ecmify is called on the image decoded in round 0: its initialisations,
\* the size probe and the magic header.
EcmifyStart ==
    /\ pc = "unecm_done" /\ round = 0 /\ result = 0
    /\ round' = 1 /\ pc' = "ecm"
    /\ image' = outfile /\ hist' = [hist EXCEPT !.out0 = outfile]
    /\ ecm' = MagicHeader
    /\ inputqueue' = <<>> /\ inedc' = U32Zero
    /\ curtype' = SECTOR_TYPE_LITERAL /\ curtypecount' = 0
    /\ curtype_in_start' = 0 /\ incheckpos' = 0 /\ inbufferpos' = 0
    /\ intotallength' = Len(outfile)
    /\ inqueuestart' = 0 /\ dataavail' = 0 /\ first_run' = TRUE
    /\ UNCHANGED <<total_in, result, outfile, decVars, tc, sect, unitVars>>

\* The refill of ecmify once willread is known: memmove, fseeko, fread.
RefillRead(willread, got) ==
    [ok |-> Len(got) = willread,
     queue |-> (IF inqueuestart # 0
                THEN Slice(inputqueue, inqueuestart, inqueuestart + dataavail)
                ELSE inputqueue) \o got,
     start |-> 0, bufferpos |-> inbufferpos + Len(got),
     avail |-> dataavail + Len(got)]

\* "Fill input buffer if needed" at the top of the loop of ecmify: the queue,
\* inqueuestart, inbufferpos and dataavail afterwards.
EcmifyRefill ==
    IF dataavail < SECTOR_SIZE_RAW /\ dataavail < intotallength - inbufferpos
    THEN RefillRead(
             Min(intotallength - inbufferpos,
                 (INPUT_QUEUE_SIZE - INPUT_QUEUE_PADDING) - dataavail),
             Fread(image, inbufferpos,
                   Min(intotallength - inbufferpos,
                       (INPUT_QUEUE_SIZE - INPUT_QUEUE_PADDING) - dataavail)))
    ELSE [ok |-> TRUE, queue |-> inputqueue, start |-> inqueuestart,
          bufferpos |-> inbufferpos, avail |-> dataavail]

\* The classification of the window at the head of the queue f: literal for
\* less than a sector, else check_type_raw.
Detect(queue, start, avail) ==
    IF avail < SECTOR_SIZE_RAW
    THEN [type |-> SECTOR_TYPE_LITERAL, sector |-> <<>>]
    ELSE check_type_raw(Slice(queue, start, start + SECTOR_SIZE_RAW))

\* The flush of the pending run of ecmify at every window, whether or not
\* the type changed.
EcmifyFlushEveryWindow(wanted) ==
    IF curtypecount # 0
    THEN flush_sector_run(inedc, curtype, curtypecount, image,
                          curtype_in_start)
    ELSE [ok |-> TRUE, edc |-> inedc, out |-> <<>>, pos |-> 0]

\* The flush of the pending run of ecmify without the test of curtypecount.
EcmifyFlush_unguarded(wanted) ==
    IF wanted
    THEN flush_sector_run(inedc, curtype, curtypecount, image,
                          curtype_in_start)
    ELSE [ok |-> TRUE, edc |-> inedc, out |-> <<>>, pos |-> 0]

\* The flush of the pending run of ecmify, if there is one to flush.
EcmifyFlush(wanted) ==
    IF wanted /\ curtypecount # 0
    THEN flush_sector_run(inedc, curtype, curtypecount, image,
                          curtype_in_start)
    ELSE [ok |-> TRUE, edc |-> inedc, out |-> <<>>, pos |-> 0]

\* "Determine how far to advance" in ecmify for the run type newtype.
EcmifyStepSize(newtype, avail) ==
    IF newtype = SECTOR_TYPE_LITERAL
    THEN (IF Min(SECTOR_SIZE_RAW, avail) = 0 THEN 1
          ELSE Min(SECTOR_SIZE_RAW, avail))
    ELSE sector_size_for_type(newtype)

\* One iteration of the loop of ecmify with data left: refill, classify the
\* window, flush the pending run if the type changed, advance.
EcmifyStep ==
    /\ pc = "ecm"
    /\ \E f \in {EcmifyRefill} :
          /\ f.ok => f.avail # 0
          /\ inbufferpos' = f.bufferpos
          /\ IF ~f.ok
             THEN /\ pc' = "ecm_done" /\ result' = 1
                  /\ inputqueue' = f.queue /\ inqueuestart' = f.start
                  /\ dataavail' = f.avail
                  /\ UNCHANGED <<ecm, inedc, curtype, curtypecount,
                                 curtype_in_start, incheckpos, first_run>>
             ELSE
             \E c \in {Detect(f.queue, f.start, f.avail)} :
             \E change \in {~first_run /\ c.type # curtype} :
             \E fl \in {EcmifyFlush(change)} :
             \E newtype \in {IF change \/ first_run THEN c.type ELSE curtype} :
             \E step \in {EcmifyStepSize(newtype, f.avail)} :
                /\ inputqueue' = Put(f.queue, f.start, c.sector)
                /\ ecm' = ecm \o fl.out
                /\ inedc' = fl.edc
                /\ IF ~fl.ok
                   THEN /\ pc' = "ecm_done" /\ result' = 1
                        /\ inqueuestart' = f.start /\ dataavail' = f.avail
                        /\ UNCHANGED <<curtype, curtypecount,
                                       curtype_in_start, incheckpos,
                                       first_run>>
                   ELSE /\ curtype' = newtype
                        /\ curtype_in_start' =
                              IF change \/ first_run THEN incheckpos
                              ELSE curtype_in_start
                        /\ first_run' = FALSE
                        /\ curtypecount' =
                              (IF change THEN 0 ELSE curtypecount)
                              + (IF newtype = SECTOR_TYPE_LITERAL
                                 THEN step ELSE 1)
                        /\ incheckpos' = incheckpos + step
                        /\ inqueuestart' = f.start + step
                        /\ dataavail' = f.avail - step
                        /\ UNCHANGED <<pc, result>>
    /\ UNCHANGED <<round, image, outfile, intotallength, total_in, decVars,
                   hist, tc, sect, unitVars>>

\* The iteration of the loop of ecmify that finds no data left, and what
\* follows the loop: the final flush, the end marker, the EDC.
EcmifyFinish ==
    /\ pc = "ecm"
    /\ \E f \in {EcmifyRefill} :
          /\ f.ok /\ f.avail = 0
          /\ inputqueue' = f.queue /\ inqueuestart' = f.start
          /\ inbufferpos' = f.bufferpos /\ dataavail' = f.avail
    /\ \E fl \in {EcmifyFlush(TRUE)} :
          /\ inedc' = fl.edc
          /\ ecm' = IF fl.ok
                    THEN ecm \o fl.out \o write_type_count(0, 0)
                             \o edc_write_bytes(fl.edc)
                    ELSE ecm \o fl.out
          /\ result' = IF fl.ok THEN 0 ELSE 1
    /\ pc' = "ecm_done"
    /\ UNCHANGED <<round, image, outfile, curtype, curtypecount,
                   curtype_in_start, incheckpos, intotallength, first_run,
                   total_in, decVars, hist, tc, sect, unitVars>>

\* ecmify_streaming is called on the image after round 1: its
\* initialisations, the magic header and the first chunk.
StreamingStart ==
    /\ pc = "unecm_done" /\ round = 1
    /\ round' = 2 /\ pc' = "ecms"
    /\ hist' = [hist EXCEPT !.ecm1 = ecm, !.out1 = outfile, !.res1 = result]
    /\ ecm' = MagicHeader
    /\ inedc' = U32Zero
    /\ curtype' = SECTOR_TYPE_LITERAL /\ curtypecount' = 0
    /\ \E chunk \in {Fread(image, 0, SECTOR_SIZE_RAW)} :
          /\ inputqueue' = chunk
          /\ dataavail' = Len(chunk)
          /\ total_in' = Len(chunk)
    /\ UNCHANGED <<image, outfile, result, curtype_in_start, incheckpos,
                   inbufferpos, intotallength, inqueuestart, first_run,
                   decVars, tc, sect, unitVars>>

\* The payload step of ecmify_streaming writing every window as it was read.
StreamingEncode_raw_window(c) ==
    [ok |-> TRUE, edc |-> edc_compute(inedc, c.sector), out |-> c.sector]

\* The payload step of ecmify_streaming for the window c of type c.type.
StreamingEncode(c) ==
    IF c.type = SECTOR_TYPE_LITERAL
    THEN [ok |-> TRUE, edc |-> edc_compute(inedc, c.sector), out |-> c.sector]
    ELSE encode_sector_from_buffer(c.sector, inedc, c.type)

\* One iteration of the loop of ecmify_streaming: classify the chunk, write
\* the record of a pending run (pending: "Handle type change" or "Flush any
\* pending run first"), write the chunk's record, read the next chunk.
StreamingStep ==
    /\ pc = "ecms" /\ dataavail > 0
    /\ \E c \in {IF dataavail < SECTOR_SIZE_RAW
                 THEN [type |-> SECTOR_TYPE_LITERAL, sector |-> inputqueue]
                 ELSE check_type_raw(inputqueue)} :
       \E pending \in {curtypecount > 0
                       /\ (c.type # curtype \/ c.type = SECTOR_TYPE_LITERAL)} :
       \E head \in {IF c.type = SECTOR_TYPE_LITERAL
                    THEN <<SECTOR_TYPE_LITERAL, dataavail>>
                    ELSE <<c.type, 1>>} :
       \E e \in {StreamingEncode(c)} :
       \E chunk \in {Fread(image, total_in, SECTOR_SIZE_RAW)} :
          /\ ecm' = ecm
                    \o (IF pending THEN write_type_count(curtype, curtypecount)
                        ELSE <<>>)
                    \o write_type_count(head[1], head[2])
                    \o e.out
          /\ inedc' = e.edc
          /\ curtype' = IF c.type = SECTOR_TYPE_LITERAL THEN curtype
                        ELSE c.type
          /\ curtypecount' = 0
          /\ IF e.ok
             THEN /\ inputqueue' = chunk
                  /\ dataavail' = Len(chunk)
                  /\ total_in' = total_in + Len(chunk)
                  /\ UNCHANGED <<pc, result>>
             ELSE /\ pc' = "ecms_done" /\ result' = 1
                  /\ inputqueue' = c.sector
                  /\ UNCHANGED <<dataavail, total_in>>
    /\ UNCHANGED <<round, image, outfile, curtype_in_start, incheckpos,
                   inbufferpos, intotallength, inqueuestart, first_run,
                   decVars, hist, tc, sect, unitVars>>

\* What follows the loop of ecmify_streaming: the end marker and the EDC.
StreamingFinish ==
    /\ pc = "ecms" /\ dataavail = 0
    /\ pc' = "ecms_done" /\ result' = 0
    /\ ecm' = ecm \o write_type_count(0, 0) \o edc_write_bytes(inedc)
    /\ UNCHANGED <<round, image, outfile, inputqueue, inedc, curtype,
                   curtypecount, curtype_in_start, incheckpos, inbufferpos,
                   intotallength, inqueuestart, dataavail, first_run,
                   total_in, decVars, hist, tc, sect, unitVars>>

Next ==
    \/ UnecmifyStart \/ UnecmifyRecord \/ UnecmifyLiteral \/ UnecmifySector
    \/ EcmifyStart \/ EcmifyStep \/ EcmifyFinish
    \/ StreamingStart \/ StreamingStep \/ StreamingFinish

Spec == Init /\ [][Next]_vars

-----------------------------------------------------------------------------
(* Decoding damaged streams, as the decoder's error tests do: a stream the   *)
(* pipeline holds (the hand-written one, or the output of an encoder) is     *)
(* cut short, or gets a byte of its trailing EDC or of its header changed,   *)
(* or an invalid type/count inserted before a record, or its end marker     *)
(* written differently, and is then decoded (round 3).                       *)

\* Images 0 .. NumDamaged - 1 are put through the pipeline.
NumDamaged == 7

\* A stream is cut to its first n bytes for n <= MaxCut, for half its
\* length, and for the MaxTail lengths before its own.
MaxCut == 5

MaxTail == 10

\* The bits flipped in a changed byte.
FlipMasks == {1, 128}

\* A type/count of six bytes: the fifth byte still has the continuation
\* bit, when 33 bits have been collected.
LongCounts == {<<252 + t, 255, 255, 255, 255, 127>> : t \in 0 .. 3}

\* Type/counts of five bytes with num = 0x7FFFFFFF (twice, the second with
\* a bit that is shifted out) and num = 0xFFFFFFFE: counts of 2^31 and more.
HugeCounts ==
    UNION {{<<252 + t, 255, 255, 255, 31>>, <<252 + t, 255, 255, 255, 95>>,
            <<248 + t, 255, 255, 255, 63>>} : t \in 0 .. 3}

DamageInit ==
    /\ TcIdle /\ SectIdle /\ UnitsIdle
    /\ pc = "call_unecmify" /\ round = 0 /\ result = 0
    /\ image = <<>> /\ outfile = <<>>
    /\ \E palette \in {Pieces} :
       \E k \in 0 .. (NumDamaged - 1) :
       \E bytes \in {Concat(ImageKinds(k, Len(palette)), palette)} :
          ecm = HandStream(bytes)
    /\ EncoderFresh /\ DecoderFresh
    /\ hist = HistNone

\* A stream of the pipeline that a job has completed and no one has damaged.
StreamWhole ==
    /\ hist.damage = "none" /\ result = 0
    /\ \/ pc = "call_unecmify" /\ round = 0
       \/ pc \in {"ecm_done", "ecms_done"}

\* The damaged stream is written in place of the stream and handed to
\* unecmify; the encoder that wrote the stream has returned.
DecodeDamaged(stream, kind, at) ==
    /\ ecm' = stream
    /\ hist' = [HistNone EXCEPT !.damage = kind, !.at = at]
    /\ pc' = "call_unecmify" /\ round' = 3
    /\ inputqueue' = <<>> /\ inedc' = U32Zero
    /\ curtype' = SECTOR_TYPE_LITERAL /\ curtypecount' = 0
    /\ curtype_in_start' = 0 /\ incheckpos' = 0 /\ inbufferpos' = 0
    /\ intotallength' = -1 /\ inqueuestart' = 0 /\ dataavail' = 0
    /\ first_run' = TRUE /\ total_in' = 0
    /\ UNCHANGED <<image, outfile, result, decVars, tc, sect, unitVars>>

\* The stream of an encoder is cut to a proper prefix.
CutStream ==
    /\ StreamWhole /\ pc \in {"ecm_done", "ecms_done"}
    /\ \E n \in (0 .. MaxCut) \cup {Len(ecm) \div 2}
                 \cup ((Len(ecm) - MaxTail) .. (Len(ecm) - 1)) :
          /\ n >= 0 /\ n < Len(ecm)
          /\ DecodeDamaged(SubSeq(ecm, 1, n), "cut", n)

\* One byte of the trailing EDC is changed.
TamperTrailer ==
    /\ StreamWhole
    /\ \E i \in 1 .. EDC_SIZE, mask \in FlipMasks :
       \E at \in {Len(ecm) - i} :
          DecodeDamaged(Put(ecm, at, <<Xor(At(ecm, at), mask)>>), "trailer", at)

\* One byte of the magic header is changed, or the stream is cut inside it.
BadHeader ==
    /\ StreamWhole
    /\ \/ \E at \in 0 .. 3, mask \in FlipMasks :
             DecodeDamaged(Put(ecm, at, <<Xor(At(ecm, at), mask)>>),
                           "magic", at)
       \/ \E n \in 0 .. 3 :
             DecodeDamaged(SubSeq(ecm, 1, n), "short", n)

\* An invalid type/count is inserted where a type/count is expected: before
\* the first record or before the end-of-records marker.
BadCount ==
    /\ StreamWhole
    /\ \E at \in {4, Len(ecm) - 9} :
          \/ \E bad \in LongCounts :
                DecodeDamaged(Slice(ecm, 0, at) \o bad
                                  \o Slice(ecm, at, Len(ecm)),
                              "longcount", at)
          \/ \E bad \in HugeCounts :
                DecodeDamaged(Slice(ecm, 0, at) \o bad
                                  \o Slice(ecm, at, Len(ecm)),
                              "hugecount", at)

\* The type/counts of five bytes with num = 0xFFFFFFFF: each type, the bit
\* of the fifth byte that is shifted beyond bit 31 clear or set.
AltMarkers ==
    {<<252 + t, 255, 255, 255, 63 + 64 * x>> : t \in 0 .. 3, x \in 0 .. 1}

\* The end-of-records marker of the hand-written stream is replaced by
\* another type/count with num = 0xFFFFFFFF.
OtherMarker ==
    /\ StreamWhole /\ pc = "call_unecmify"
    /\ \E at \in {Len(ecm) - 9}, m \in AltMarkers :
          DecodeDamaged(Put(ecm, at, m), "marker", at)

DamageNext ==
    \/ Next \/ CutStream \/ TamperTrailer \/ BadHeader \/ BadCount
    \/ OtherMarker

SpecDamage == DamageInit /\ [][DamageNext]_vars

-----------------------------------------------------------------------------
(* Harness of the type/count codec: two (type, count) pairs are written by  *)
(* write_type_count and read back by read_type_count.                       *)

\* How far around each length boundary of the encoding counts are sampled.
MaxDelta == 2

\* The largest count of a record, 2^31 - 1.
CountMax == 2147483647

\* The counts at which the encoding grows by a byte: 2^5+1, 2^12+1, ...
CountBoundaries == {33, 4097, 524289, 67108865}

CountSamples ==
    (1 .. (1 + MaxDelta))
    \cup (UNION {(b - MaxDelta) .. (b + MaxDelta) : b \in CountBoundaries})
    \cup {CountMax - d : d \in 0 .. MaxDelta}

\* What follows the written bytes in the stream read back: bytes with the
\* continuation bit set, which a reader running past the end would consume.
TcTail == <<255, 255>>

TcInit ==
    /\ PipelineIdle /\ SectIdle /\ UnitsIdle
    /\ \E t1 \in 0 .. 3, t2 \in 0 .. 3, c1 \in CountSamples, c2 \in CountSamples :
          tc = [pc |-> "picked", type |-> <<t1, t2>>, count |-> <<c1, c2>>]

TcWrite ==
    /\ tc.pc = "picked"
    /\ tc' = [pc |-> "written", type |-> tc.type, count |-> tc.count,
              bytes |-> <<write_type_count(tc.type[1], tc.count[1]),
                          write_type_count(tc.type[2], tc.count[2])>>]
    /\ UNCHANGED <<pipeVars, sect, unitVars>>

TcRead ==
    /\ tc.pc = "written"
    /\ tc' = [pc |-> "read", type |-> tc.type, count |-> tc.count,
              bytes |-> tc.bytes,
              rd |-> <<read_type_count(tc.bytes[1] \o TcTail, 0),
                       read_type_count(tc.bytes[2] \o TcTail, 0)>>]
    /\ UNCHANGED <<pipeVars, sect, unitVars>>

TcNext == TcWrite \/ TcRead

SpecCodec == TcInit /\ [][TcNext]_vars

-----------------------------------------------------------------------------
(* Harness of the sector generator and classifier: a 2352-byte buffer is    *)
(* filled, eccedc_generate computes its check fields, one byte may then be  *)
(* damaged, and check_type_raw classifies the result; or ecc_verify checks  *)
(* it, or eccedc_generate computes the check fields anew.  clean is the     *)
(* sector before the damage and entry the buffer the last call was made on. *)

\* The user-data fill patterns 0 .. MaxFill are tried.
MaxFill == 1

\* A buffer of pattern bytes, no field of it meaningful.
FillBuffer(fill, T) ==
    SubSeq([k \in 1 .. SECTOR_SIZE_RAW |->
               ((2 * fill + 3) * k + 5 * T + fill) % 256],
           1, SECTOR_SIZE_RAW)

\* The buffer with the sync pattern, the mode byte of T and, for Mode 2, the
\* subheader equal to its copy; everything else stays pattern bytes.
FramedBuffer(fill, T) ==
    LET s == Put(sector_init_sync(FillBuffer(fill, T)), OFFSET_MODE,
                 <<IF T = SECTOR_TYPE_MODE1 THEN 1 ELSE 2>>)
    IN  IF T = SECTOR_TYPE_MODE1 THEN s ELSE sector_copy_subheader(s)

\* The offsets at which a byte is damaged: sync (0, 10, 11), address (12,
\* 13, 14), mode (15), subheader or data (16, 21), data (1000), the Mode 1
\* EDC (2067),
\* reserved (2068), the Form 1 EDC (2072), ECC P (2076, 2200), ECC Q (2248,
\* 2351) and the Form 2 EDC (2348).
DamageOffsets ==
    {0, 10, 11, 12, 13, 14, 15, 16, 21, 1000, 2067, 2068, 2072, 2076, 2200,
     2248, 2348, 2351}

\* The bits flipped in the damaged byte.
DamageMasks == {3, 255}

SectInit ==
    /\ PipelineIdle /\ TcIdle /\ UnitsIdle
    /\ \E T \in {SECTOR_TYPE_MODE1, SECTOR_TYPE_MODE2_FORM1,
                 SECTOR_TYPE_MODE2_FORM2},
          fill \in 0 .. MaxFill, framed \in BOOLEAN :
          sect = [pc |-> "filled", T |-> T, framed |-> framed,
                  generated |-> FALSE, damage |-> -1, verdict |-> -1,
                  ecc |-> FALSE, clean |-> <<>>, entry |-> <<>>,
                  sector |-> IF framed THEN FramedBuffer(fill, T)
                             ELSE FillBuffer(fill, T)]

\* eccedc_generate(sector, T)
SectGenerate ==
    /\ sect.pc = "filled"
    /\ sect' = [sect EXCEPT !.pc = "generated", !.generated = TRUE,
                            !.sector = eccedc_generate(sect.sector, sect.T)]
    /\ UNCHANGED <<pipeVars, tc, unitVars>>

\* One byte of the generated sector is damaged.
SectDamage ==
    /\ sect.pc = "generated" /\ sect.framed
    /\ \E off \in DamageOffsets, mask \in DamageMasks :
          sect' = [sect EXCEPT !.pc = "damaged", !.damage = off,
                      !.clean = sect.sector,
                      !.sector = Put(sect.sector, off,
                                     <<Xor(At(sect.sector, off), mask)>>)]
    /\ UNCHANGED <<pipeVars, tc, unitVars>>

\* check_type_raw(sector)
SectClassify ==
    /\ sect.pc \in {"filled", "generated", "damaged"}
    /\ LET r == check_type_raw(sect.sector)
       IN  sect' = [sect EXCEPT !.pc = "classified", !.verdict = r.type,
                                !.entry = sect.sector, !.sector = r.sector]
    /\ UNCHANGED <<pipeVars, tc, unitVars>>

\* ecc_verify(sector, zeroaddress, dest) as check_type_raw calls it for the
\* sector's type: Mode 1 without, Mode 2 Form 1 with the address zeroed.
SectVerify ==
    /\ sect.pc \in {"generated", "damaged"} /\ sect.framed
    /\ sect.T \in {SECTOR_TYPE_MODE1, SECTOR_TYPE_MODE2_FORM1}
    /\ LET v == IF sect.T = SECTOR_TYPE_MODE1
                THEN ecc_verify(sect.sector, FALSE, OFFSET_MODE1_ECC_P)
                ELSE ecc_verify(sect.sector, TRUE, 2076)
       IN  sect' = [sect EXCEPT !.pc = "verified", !.ecc = v.ok,
                                !.entry = sect.sector, !.sector = v.sector]
    /\ UNCHANGED <<pipeVars, tc, unitVars>>

\* eccedc_generate(sector, T) on the damaged sector.
SectRegenerate ==
    /\ sect.pc = "damaged"
    /\ sect' = [sect EXCEPT !.pc = "regenerated", !.entry = sect.sector,
                            !.sector = eccedc_generate(sect.sector, sect.T)]
    /\ UNCHANGED <<pipeVars, tc, unitVars>>

SectNext ==
    \/ SectGenerate \/ SectDamage \/ SectClassify
    \/ SectVerify \/ SectRegenerate

SpecSector == SectInit /\ [][SectNext]_vars

-----------------------------------------------------------------------------
(* Harness of the run counter of ecmify: the loop of ecmify inside a run of *)
(* windows all classified literal (an image without raw sectors), followed  *)
(* down to the flush of the run.  Only the counters are kept: curtypecount, *)
(* an int, and the bytes of the image not yet examined, intotallength -     *)
(* incheckpos.  The loop is entered after some iterations on full windows,  *)
(* near the start of the run, near the largest value of an int and, where   *)
(* the counter wraps around, near 2^32 bytes.  total is the length of the   *)
(* run so far, as 16-bit halves (hi beyond 65535 from 2^32 bytes on).       *)

\* INT_MAX, curtypecount being an int.
IntMax == 2147483647

\* How many full windows before the largest count, and beyond the bytes
\* left, the loop is entered with.
MaxRunWindows == 3

\* Bytes left beyond full windows: none, one, and the two values either side
\* of the largest int after IntMax \div 2352 windows.
RunTails == {0, 1, IntMax % SECTOR_SIZE_RAW, (IntMax % SECTOR_SIZE_RAW) + 1}

\* (unsigned)curtypecount as 16-bit halves.
RunUnsigned(count) ==
    IF count >= 0 THEN [hi |-> count \div 65536, lo |-> count % 65536]
    ELSE [hi |-> 65536 + (count \div 65536), lo |-> count % 65536]

\* What 2^32 = 2 * IntMax + 2 bytes are more than whole windows.
RunWrapRest == (2 * (IntMax % SECTOR_SIZE_RAW) + 2) % SECTOR_SIZE_RAW

\* The values of curtypecount the loop is entered with: after up to
\* MaxRunWindows windows, up to MaxRunWindows windows before the largest
\* int, and, wrapped around, up to MaxRunWindows windows before 2^32 bytes.
RunCounts ==
    {j * SECTOR_SIZE_RAW :
        j \in (0 .. MaxRunWindows)
              \cup (((IntMax \div SECTOR_SIZE_RAW) - MaxRunWindows)
                    .. (IntMax \div SECTOR_SIZE_RAW))}
    \cup {(0 - RunWrapRest) - j * SECTOR_SIZE_RAW : j \in 0 .. MaxRunWindows}

RunInit ==
    /\ PipelineIdle /\ TcIdle /\ SectIdle
    /\ ConvIdle /\ ChainIdle /\ OnceIdle /\ ScanIdle
    /\ \E c \in RunCounts, k \in 0 .. MaxRunWindows, t \in RunTails :
          run = [pc |-> "loop", curtypecount |-> c,
                 total |-> RunUnsigned(c),
                 left |-> k * SECTOR_SIZE_RAW + t,
                 emitted |-> [hi |-> 0, lo |-> 0]]

\* curtypecount += (int)step.  Beyond INT_MAX the addition is undefined: the
\* value wraps around (two's complement), or the program is stopped (a
\* build that traps on overflow).
RunAdd(count, step) ==
    IF count <= IntMax - step THEN {[trap |-> FALSE, value |-> count + step]}
    ELSE {[trap |-> FALSE,
           value |-> ((count - IntMax) + (step - IntMax)) - 2],
          [trap |-> TRUE, value |-> count]}

\* One iteration of the loop of ecmify on a literal window: "Determine how
\* far to advance and tally counts", "Advance position".
RunStep ==
    /\ run.pc = "loop" /\ run.left > 0
    /\ \E step \in {EcmifyStepSize(SECTOR_TYPE_LITERAL, run.left)} :
       \E sum \in RunAdd(run.curtypecount, step) :
          run' = IF sum.trap THEN [run EXCEPT !.pc = "trapped"]
                 ELSE [run EXCEPT
                         !.curtypecount = sum.value,
                         !.total = [hi |-> run.total.hi
                                           + (run.total.lo + step) \div 65536,
                                    lo |-> (run.total.lo + step) % 65536],
                         !.left = run.left - step]
    /\ UNCHANGED <<pipeVars, tc, sect, conv, chain, once, scan>>

\* "Flush final run": flush_sector_run is called with (unsigned)curtypecount
\* if curtypecount is not 0, and writes that count.
RunFlush ==
    /\ run.pc = "loop" /\ run.left = 0
    /\ run' = IF run.curtypecount # 0
              THEN [run EXCEPT !.pc = "flushed",
                               !.emitted = RunUnsigned(run.curtypecount)]
              ELSE [run EXCEPT !.pc = "empty"]
    /\ UNCHANGED <<pipeVars, tc, sect, conv, chain, once, scan>>

RunNext == RunStep \/ RunFlush

SpecRun == RunInit /\ [][RunNext]_vars

-----------------------------------------------------------------------------
(* Harness of sector_to_msf: it is called on a sector ordinal, as the       *)
(* decoder's tests call it.                                                 *)

\* The ordinals 0 .. MaxOrdinal are tried: all those whose minute value
\* ((n + 150) / 75) / 60 is below 100.
MaxOrdinal == 449849

ConvOrdinals == 0 .. MaxOrdinal

ConvInit ==
    /\ PipelineIdle /\ TcIdle /\ SectIdle
    /\ ChainIdle /\ OnceIdle /\ RunIdle /\ ScanIdle
    /\ \E n \in ConvOrdinals : conv = [pc |-> "picked", sector |-> n]

\* sector_to_msf(sector, msf)
ConvCall ==
    /\ conv.pc = "picked"
    /\ conv' = [pc |-> "done", sector |-> conv.sector,
                msf |-> sector_to_msf(conv.sector)]
    /\ UNCHANGED <<pipeVars, tc, sect, chain, once, run, scan>>

ConvNext == ConvCall

SpecConv == ConvInit /\ [][ConvNext]_vars

-----------------------------------------------------------------------------
(* Harness of edc_compute: the EDC of two chunks is computed chunk after    *)
(* chunk, the second call seeded with the result of the first, and over     *)
(* both at once, as test_edc_compute does.                                  *)

\* Chunks of up to MaxChunk bytes are tried.
MaxChunk == 2

\* The seeds: 0, all ones, the polynomial 0xD8018001, 0x12345678.
ChainSeeds ==
    {U32Zero, <<255, 255, 255, 255>>, <<1, 128, 1, 216>>, <<120, 86, 52, 18>>}

\* The bytes short chunks are made of.
ChainBytes == {0, 129, 255}

\* The short chunks, the two chunks of test_edc_compute, and chunks of the
\* sizes the encoder and the decoder feed: a sector, a Mode 2 body, a
\* literal of a few bytes.
ChainChunks ==
    (UNION {[1 .. n -> ChainBytes] : n \in 0 .. MaxChunk})
    \cup {<<1, 2, 3, 4>>, <<5, 6, 7, 8>>,
          Pattern(SECTOR_SIZE_RAW, 7, 1), Pattern(SECTOR_SIZE_MODE2, 13, 5),
          ShortPiece}

ChainInit ==
    /\ PipelineIdle /\ TcIdle /\ SectIdle
    /\ ConvIdle /\ OnceIdle /\ RunIdle /\ ScanIdle
    /\ \E s \in ChainSeeds, a \in ChainChunks, b \in ChainChunks :
          chain = [pc |-> "picked", seed |-> s, a |-> a, b |-> b]

\* edc_part1 = edc_compute(seed, a); edc_part2 = edc_compute(edc_part1, b);
\* edc_whole = edc_compute(seed, a followed by b).
ChainCompute ==
    /\ chain.pc = "picked"
    /\ chain' = [chain EXCEPT
                    !.pc = "computed"] @@
                [parts |-> edc_compute(edc_compute(chain.seed, chain.a),
                                       chain.b),
                 whole |-> edc_compute(chain.seed, chain.a \o chain.b)]
    /\ UNCHANGED <<pipeVars, tc, sect, conv, once, run, scan>>

ChainNext == ChainCompute

SpecChain == ChainInit /\ [][ChainNext]_vars

-----------------------------------------------------------------------------
(* Harness of eccedc_init: threads call eccedc_init, each several times.    *)
(* call_once is the C11 function (pthread_once where <threads.h> is         *)
(* missing): the first caller to find the flag unset runs the function, a   *)
(* caller that finds it running waits, and a caller that finds it done      *)
(* returns.  The tables are kept as the sets of the indices written so far; *)
(* one iteration of the loop of eccedc_init_tables is one step.             *)

\* The threads 1 .. NumThreads call eccedc_init up to MaxCalls times each.
NumThreads == 2

MaxCalls == 2

\* The number of entries of each lookup table.
LutSize == 256

\* static once_flag init_flag = ONCE_FLAG_INIT, the tables of static storage
\* unwritten, no thread inside eccedc_init.
OnceInit ==
    /\ PipelineIdle /\ TcIdle /\ SectIdle
    /\ ConvIdle /\ ChainIdle /\ RunIdle /\ ScanIdle
    /\ once = [pc |-> "threads", init_flag |-> "init", runs |-> 0,
               rows |-> 0, f |-> {}, b |-> {}, e |-> {},
               thread |-> [th \in 1 .. NumThreads |-> "out"],
               calls |-> [th \in 1 .. NumThreads |-> 0],
               i |-> [th \in 1 .. NumThreads |-> 0]]

\* Thread th calls eccedc_init().
EccedcInit(th) ==
    /\ once.thread[th] = "out" /\ once.calls[th] < MaxCalls
    /\ once' = [once EXCEPT !.thread[th] = "call_once",
                            !.calls[th] = once.calls[th] + 1]
    /\ UNCHANGED <<pipeVars, tc, sect, conv, chain, run, scan>>

\* call_once calling the function whatever the flag.
call_once_every_time(th) ==
    /\ once.thread[th] = "call_once"
    /\ once' = [once EXCEPT !.thread[th] = "tables", !.i[th] = 0,
                            !.runs = once.runs + 1]
    /\ UNCHANGED <<pipeVars, tc, sect, conv, chain, run, scan>>

\* call_once(&init_flag, eccedc_init_tables) in thread th: the function is
\* entered if the flag is unset; the call returns if the flag is done; it
\* waits while the function runs in another thread.
call_once(th) ==
    /\ once.thread[th] = "call_once"
    /\ once.init_flag # "running"
    /\ once' = IF once.init_flag = "init"
               THEN [once EXCEPT !.init_flag = "running",
                                 !.thread[th] = "tables", !.i[th] = 0,
                                 !.runs = once.runs + 1]
               ELSE [once EXCEPT !.thread[th] = "out"]
    /\ UNCHANGED <<pipeVars, tc, sect, conv, chain, run, scan>>

\* One iteration of the loop of eccedc_init_tables in thread th:
\* ecc_f_lut[i], ecc_b_lut[i ^ j] and edc_lut[i] are written.
InitTablesStep(th) ==
    /\ once.thread[th] = "tables" /\ once.i[th] < LutSize
    /\ once' = [once EXCEPT !.f = once.f \cup {once.i[th]},
                            !.b = once.b \cup {EccBIndex(once.i[th])},
                            !.e = once.e \cup {once.i[th]},
                            !.rows = once.rows + 1,
                            !.i[th] = once.i[th] + 1]
    /\ UNCHANGED <<pipeVars, tc, sect, conv, chain, run, scan>>

\* eccedc_init_tables returns in thread th; call_once sets the flag and
\* returns, and so does eccedc_init.
InitTablesReturn(th) ==
    /\ once.thread[th] = "tables" /\ once.i[th] = LutSize
    /\ once' = [once EXCEPT !.init_flag = "done", !.thread[th] = "out"]
    /\ UNCHANGED <<pipeVars, tc, sect, conv, chain, run, scan>>

OnceNext ==
    \E th \in 1 .. NumThreads :
       \/ EccedcInit(th) \/ call_once(th)
       \/ InitTablesStep(th) \/ InitTablesReturn(th)

SpecOnce == OnceInit /\ [][OnceNext]_vars

-----------------------------------------------------------------------------
(* Harness of the scan of ecmify on long images: the loop of ecmify with    *)
(* its counters only.  The image is its length and a layout saying at which *)
(* offsets a valid sector of which type begins; the input queue is the list *)
(* of its stretches that hold bytes of the image (queue offset q, n bytes   *)
(* from file offset f on), a window being classified as the layout says of  *)
(* the file offset its bytes come from.  window, read and flushed record    *)
(* the window classified last, the refill read last and the runs flushed.   *)

\* The bytes the queue holds after the padding.
ScanCapacity == INPUT_QUEUE_SIZE - INPUT_QUEUE_PADDING

\* The images have up to MaxScanSectors whole sectors more than none, than
\* the queue holds, and than the queue holds twice.
MaxScanSectors == 2

ScanSectors ==
    UNION {(j * (ScanCapacity \div SECTOR_SIZE_RAW))
            .. (j * (ScanCapacity \div SECTOR_SIZE_RAW) + MaxScanSectors) :
           j \in 0 .. 2}

\* The bytes after the whole sectors: none, a few, what the queue holds
\* beyond whole sectors (and one more), and what is missing to one sector
\* more.
ScanTails ==
    {0, 5, ScanCapacity % SECTOR_SIZE_RAW, (ScanCapacity % SECTOR_SIZE_RAW) + 1,
     SECTOR_SIZE_RAW - (ScanCapacity % SECTOR_SIZE_RAW)}

\* No sectors; Mode 1 sectors throughout; runs of literal windows and of
\* sectors of the three types in turn.
ScanLayouts == {"none", "mode1", "mixed"}

\* How many windows a run of the mixed layout has.
ScanRunLength == (ScanCapacity \div SECTOR_SIZE_RAW) \div 4

\* What check_type_raw says of the 2352 bytes of the image from offset p on.
ScanSectorAt(layout, len, p) ==
    IF p % SECTOR_SIZE_RAW # 0 \/ p + SECTOR_SIZE_RAW > len
    THEN SECTOR_TYPE_LITERAL
    ELSE IF layout = "none" THEN SECTOR_TYPE_LITERAL
    ELSE IF layout = "mode1" THEN SECTOR_TYPE_MODE1
    ELSE ((p \div SECTOR_SIZE_RAW) \div ScanRunLength) % 4

ScanInit ==
    /\ PipelineIdle /\ TcIdle /\ SectIdle
    /\ ConvIdle /\ ChainIdle /\ OnceIdle /\ RunIdle
    /\ \E k \in ScanSectors, t \in ScanTails, layout \in ScanLayouts :
          scan = [pc |-> "loop", layout |-> layout,
                  intotallength |-> k * SECTOR_SIZE_RAW + t,
                  inbufferpos |-> 0, incheckpos |-> 0, inqueuestart |-> 0,
                  dataavail |-> 0, curtype |-> SECTOR_TYPE_LITERAL,
                  curtypecount |-> 0, curtype_in_start |-> 0,
                  first_run |-> TRUE, seg |-> <<>>,
                  window |-> [q |-> 0, n |-> 0, f |-> 0, at |-> 0],
                  read |-> [q |-> 0, n |-> 0], flushed |-> <<>>]

\* The part of the stretch g that lies in the queue offsets [lo, hi).
SegClipOne(g, lo, hi) ==
    LET a == IF g.q > lo THEN g.q ELSE lo
        b == Min(g.q + g.n, hi)
    IN  [q |-> a, f |-> g.f + (a - g.q), n |-> b - a]

\* What the stretches seg hold in the queue offsets [lo, hi).
SegClip(seg, lo, hi) ==
    SelectSeq([i \in 1 .. Len(seg) |-> SegClipOne(seg[i], lo, hi)],
              LAMBDA g : g.n > 0)

\* fread(inputqueue + PADDING + g.q, 1, g.n, in) at file position g.f.
SegRead(seg, g) ==
    LET kept == SegClip(seg, 0, g.q)
    IN  IF /\ kept # <<>>
           /\ kept[Len(kept)].q + kept[Len(kept)].n = g.q
           /\ kept[Len(kept)].f + kept[Len(kept)].n = g.f
        THEN [kept EXCEPT ![Len(kept)].n = @ + g.n]
        ELSE Append(kept, g)

\* The file offset the n queue bytes from start on come from, -1 if they
\* are not n successive bytes of the image.
WindowFile(seg, start, n) ==
    IF \E i \in 1 .. Len(seg) :
          seg[i].q <= start /\ start + n <= seg[i].q + seg[i].n
    THEN LET i == CHOOSE i \in 1 .. Len(seg) :
                     seg[i].q <= start /\ start + n <= seg[i].q + seg[i].n
         IN  seg[i].f + (start - seg[i].q)
    ELSE -1

\* The refill of ecmify with inqueuestart reset but nothing moved.
ScanMoved_not_moved(s) == s.seg

\* if (inqueuestart) memmove(inputqueue + PADDING, inputqueue + PADDING +
\* inqueuestart, dataavail): the queue afterwards.
ScanMoved(s) ==
    IF s.inqueuestart # 0
    THEN LET live == SegClip(s.seg, s.inqueuestart,
                             s.inqueuestart + s.dataavail)
         IN  [i \in 1 .. Len(live) |->
                 [live[i] EXCEPT !.q = @ - s.inqueuestart]]
    ELSE s.seg

\* "Fill input buffer if needed" at the top of the loop of ecmify: the queue,
\* inqueuestart, inbufferpos and dataavail afterwards, and what was read.
ScanRefill(s) ==
    IF /\ s.dataavail < SECTOR_SIZE_RAW
       /\ s.dataavail < s.intotallength - s.inbufferpos
    THEN LET willread == Min(s.intotallength - s.inbufferpos,
                             ScanCapacity - s.dataavail)
         IN  [seg |-> SegRead(ScanMoved(s),
                              [q |-> s.dataavail, f |-> s.inbufferpos,
                               n |-> willread]),
              start |-> 0, bufferpos |-> s.inbufferpos + willread,
              avail |-> s.dataavail + willread,
              read |-> [q |-> s.dataavail, n |-> willread]]
    ELSE [seg |-> s.seg, start |-> s.inqueuestart,
          bufferpos |-> s.inbufferpos, avail |-> s.dataavail,
          read |-> s.read]

\* "Detect sector type" on the window at the head of the queue f.
ScanDetect(s, f) ==
    IF f.avail < SECTOR_SIZE_RAW THEN SECTOR_TYPE_LITERAL
    ELSE IF WindowFile(f.seg, f.start, SECTOR_SIZE_RAW) < 0
    THEN SECTOR_TYPE_LITERAL
    ELSE ScanSectorAt(s.layout, s.intotallength,
                      WindowFile(f.seg, f.start, SECTOR_SIZE_RAW))

\* The bytes flush_sector_run reads for a run, a sector being counted as one
\* byte.
ScanRunBytes_one_per_sector(T, count) == count

\* The bytes flush_sector_run reads for a run of count of type T.
ScanRunBytes(T, count) ==
    IF T = SECTOR_TYPE_LITERAL THEN count ELSE count * SECTOR_SIZE_RAW

\* fseeko(in, curtype_in_start) and flush_sector_run(&inedc, curtype,
\* curtypecount, in, out) if wanted and curtypecount is not 0: whether the
\* reads succeeded and the run read, from file offset from up to to, the
\* check position being at.
ScanFlush(s, wanted) ==
    IF wanted /\ s.curtypecount # 0
    THEN [ok |-> s.curtype_in_start
                    + ScanRunBytes(s.curtype, s.curtypecount)
                 <= s.intotallength,
          runs |-> <<[type |-> s.curtype, count |-> s.curtypecount,
                      from |-> s.curtype_in_start,
                      to |-> Min(s.intotallength,
                                 s.curtype_in_start
                                 + ScanRunBytes(s.curtype, s.curtypecount)),
                      at |-> s.incheckpos]>>]
    ELSE [ok |-> TRUE, runs |-> <<>>]

\* One iteration of the loop of ecmify with data left: refill, classify the
\* window, flush the pending run if the type changed, advance.
ScanStep ==
    /\ scan.pc = "loop"
    /\ \E f \in {ScanRefill(scan)} :
       \E t \in {ScanDetect(scan, f)} :
       \E change \in {~scan.first_run /\ t # scan.curtype} :
       \E fl \in {ScanFlush(scan, change)} :
       \E newtype \in {IF change \/ scan.first_run THEN t
                       ELSE scan.curtype} :
       \E step \in {EcmifyStepSize(newtype, f.avail)} :
          /\ f.avail # 0
          /\ scan' =
                IF ~fl.ok
                THEN [scan EXCEPT
                        !.pc = "failed", !.seg = f.seg,
                        !.inqueuestart = f.start,
                        !.inbufferpos = f.bufferpos, !.dataavail = f.avail,
                        !.read = f.read,
                        !.flushed = scan.flushed \o fl.runs]
                ELSE [scan EXCEPT
                        !.seg = f.seg, !.read = f.read,
                        !.inbufferpos = f.bufferpos,
                        !.window = [q |-> f.start,
                                    n |-> Min(f.avail, SECTOR_SIZE_RAW),
                                    f |-> WindowFile(f.seg, f.start,
                                              Min(f.avail, SECTOR_SIZE_RAW)),
                                    at |-> scan.incheckpos],
                        !.flushed = scan.flushed \o fl.runs,
                        !.curtype = newtype,
                        !.curtype_in_start =
                            IF change \/ scan.first_run THEN scan.incheckpos
                            ELSE scan.curtype_in_start,
                        !.first_run = FALSE,
                        !.curtypecount =
                            (IF change THEN 0 ELSE scan.curtypecount)
                            + (IF newtype = SECTOR_TYPE_LITERAL
                               THEN step ELSE 1),
                        !.incheckpos = scan.incheckpos + step,
                        !.inqueuestart = f.start + step,
                        !.dataavail = f.avail - step]
    /\ UNCHANGED <<pipeVars, tc, sect, conv, chain, once, run>>

\* The iteration of the loop of ecmify that finds no data left, and the
\* final flush.
ScanFinish ==
    /\ scan.pc = "loop"
    /\ \E f \in {ScanRefill(scan)} :
       \E fl \in {ScanFlush(scan, TRUE)} :
          /\ f.avail = 0
          /\ scan' = [scan EXCEPT
                        !.pc = IF fl.ok THEN "done" ELSE "failed",
                        !.seg = f.seg, !.read = f.read,
                        !.inqueuestart = f.start,
                        !.inbufferpos = f.bufferpos, !.dataavail = f.avail,
                        !.flushed = scan.flushed \o fl.runs]
    /\ UNCHANGED <<pipeVars, tc, sect, conv, chain, once, run>>

ScanNext == ScanStep \/ ScanFinish

SpecScan == ScanInit /\ [][ScanNext]_vars

\* C5: for every type in 0..3 and count in [1, 2^31), reading back what
\* write_type_count wrote returns the same type and num = count - 1 and
\* consumes exactly the 1..5 bytes written; distinct (type, count) pairs are
\* written as distinct byte strings, and none is read as the sentinel.
C5_TypeCountRoundTrip ==
    tc.pc = "read" =>
        /\ \A i \in 1 .. 2 :
              /\ tc.rd[i].ok
              /\ tc.rd[i].type = tc.type[i]
              /\ tc.rd[i].num = [hi |-> (tc.count[i] - 1) \div 65536,
                                 lo |-> (tc.count[i] - 1) % 65536]
              /\ tc.rd[i].pos = Len(tc.bytes[i])
              /\ Len(tc.bytes[i]) \in 1 .. 5
              /\ tc.rd[i].num # [hi |-> 65535, lo |-> 65535]
        /\ (<<tc.type[1], tc.count[1]>> # <<tc.type[2], tc.count[2]>>
                => tc.bytes[1] # tc.bytes[2])

\* C5 witness: a five-byte encoding (the largest count) and a one-byte
\* encoding of different pairs have been written and read back.
C5_Witness ==
    /\ tc.pc = "read"
    /\ tc.count[1] = CountMax /\ Len(tc.bytes[1]) = 5
    /\ tc.count[2] = 1 /\ Len(tc.bytes[2]) = 1
    /\ tc.type[1] = 3 /\ tc.type[2] = 0

\* C8: a buffer with the sync pattern, the mode byte of T and (Mode 2) a
\* subheader equal to its copy is, after eccedc_generate(sector, T),
\* classified as T by check_type_raw; a Form 2 sector that passes the Form 1
\* checks as well may be classified Form 1.
C8_GenerateThenClassify ==
    (sect.pc = "classified" /\ sect.framed /\ sect.generated
        /\ sect.damage = -1)
    => \/ sect.verdict = sect.T
       \/ sect.T = SECTOR_TYPE_MODE2_FORM2
            /\ sect.verdict = SECTOR_TYPE_MODE2_FORM1

\* C8 witness: a generated Mode 2 Form 1 sector has been classified Form 1.
C8_Witness ==
    /\ sect.pc = "classified" /\ sect.framed /\ sect.generated
    /\ sect.damage = -1
    /\ sect.T = SECTOR_TYPE_MODE2_FORM1
    /\ sect.verdict = SECTOR_TYPE_MODE2_FORM1

\* The fields of the classified window, recomputed from its bytes.
SectSyncOk ==
    Slice(sect.sector, 0, 12) = <<0, 255, 255, 255, 255, 255, 255, 255, 255,
                                  255, 255, 0>>

SectSubheaderOk == Slice(sect.sector, 16, 20) = Slice(sect.sector, 20, 24)

SectReservedOk == Slice(sect.sector, 2068, 2076) = <<0, 0, 0, 0, 0, 0, 0, 0>>

SectEdcOk(from, to) ==
    Slice(sect.sector, to, to + 4)
        = edc_write_bytes(edc_compute(U32Zero, Slice(sect.sector, from, to)))

SectEccOk(zeroaddress) == ecc_generate(sect.sector, zeroaddress) = sect.sector

\* C9: check_type_raw returns a sector type only for a window with the sync
\* pattern, that type's mode byte, zero reserved bytes (Mode 1) or a
\* subheader equal to its copy (Mode 2), a stored EDC equal to the EDC of the
\* type's range and (Mode 1, Form 1) stored ECC bytes equal to the recomputed
\* ones; a wrong sync byte, a mode byte other than 1 and 2, a subheader
\* mismatch, and a damaged EDC or ECC byte of a Mode 1 sector give literal.
C9_ClassifierSound ==
    sect.pc = "classified" =>
        /\ sect.verdict = SECTOR_TYPE_MODE1 =>
              /\ SectSyncOk /\ At(sect.sector, 15) = 1 /\ SectReservedOk
              /\ SectEdcOk(0, 2064) /\ SectEccOk(FALSE)
        /\ sect.verdict = SECTOR_TYPE_MODE2_FORM1 =>
              /\ SectSyncOk /\ At(sect.sector, 15) = 2 /\ SectSubheaderOk
              /\ SectEdcOk(16, 2072) /\ SectEccOk(TRUE)
        /\ sect.verdict = SECTOR_TYPE_MODE2_FORM2 =>
              /\ SectSyncOk /\ At(sect.sector, 15) = 2 /\ SectSubheaderOk
              /\ SectEdcOk(16, 2348)
        /\ ~SectSyncOk => sect.verdict = SECTOR_TYPE_LITERAL
        /\ At(sect.sector, 15) \notin {1, 2}
              => sect.verdict = SECTOR_TYPE_LITERAL
        /\ (At(sect.sector, 15) = 2 /\ ~SectSubheaderOk)
              => sect.verdict = SECTOR_TYPE_LITERAL
        /\ (sect.T = SECTOR_TYPE_MODE1
                /\ sect.damage \in (2064 .. 2067) \cup (2076 .. 2351))
              => sect.verdict = SECTOR_TYPE_LITERAL

\* C9 witness: a generated Mode 1 sector with a damaged ECC byte has been
\* classified, as literal.
C9_Witness ==
    /\ sect.pc = "classified" /\ sect.T = SECTOR_TYPE_MODE1
    /\ sect.generated /\ sect.damage = 2200
    /\ sect.verdict = SECTOR_TYPE_LITERAL

-----------------------------------------------------------------------------
(* Properties of the pipeline.                                              *)

\* The last four bytes of the stream.
Trailer == Slice(ecm, Len(ecm) - EDC_SIZE, Len(ecm))

\* The type of window i of the image, the windows being the sectors of 2352
\* bytes from the start of the image.
ImageWindowType(i) ==
    check_type_raw(Slice(image, i * 2352, (i + 1) * 2352)).type

\* The bytes of img from pos on that the image-wide EDC covers: the bytes
\* that are in no sector, all of a Mode 1 sector, bytes [16, 2352) of a
\* Mode 2 sector.
RECURSIVE EdcCoverage(_, _)
EdcCoverage(img, pos) ==
    IF Len(img) - pos < 2352 THEN Slice(img, pos, Len(img))
    ELSE (IF check_type_raw(Slice(img, pos, pos + 2352)).type \in {2, 3}
          THEN Slice(img, pos + 16, pos + 2352)
          ELSE Slice(img, pos, pos + 2352))
         \o EdcCoverage(img, pos + 2352)

\* C1 (as stated): for every image, ecmify succeeds and unecmify of its
\* output succeeds and writes the image byte for byte.
C1_BatchRoundTrip ==
    /\ (round = 1 /\ pc = "ecm_done") => result = 0
    /\ (round = 1 /\ pc = "unecm_done") => (result = 0 /\ outfile = image)

\* C2 (as stated): the four bytes after the end marker are the little-endian
\* EDC of the whole image.
C2_TrailerIsEdcOfInput ==
    (pc \in {"ecm_done", "ecms_done"} /\ result = 0)
    => Trailer = edc_write_bytes(edc_compute(U32Zero, image))

\* C2 (amended): the four bytes after the end marker are the little-endian
\* EDC accumulated in input order over the bytes outside sectors, all 2352
\* bytes of every Mode 1 sector and bytes [16, 2352) of every Mode 2 sector.
C2_TrailerIsEdcOfCoverage ==
    (pc \in {"ecm_done", "ecms_done"} /\ result = 0)
    => Trailer = edc_write_bytes(edc_compute(U32Zero, EdcCoverage(image, 0)))

\* C2 witness: ecmify has encoded an image that starts with a Mode 2 sector,
\* and the trailer is not the EDC of the whole image.
C2_Witness ==
    /\ pc = "ecm_done" /\ result = 0
    /\ Len(image) >= 2352 /\ ImageWindowType(0) = SECTOR_TYPE_MODE2_FORM1
    /\ Trailer # edc_write_bytes(edc_compute(U32Zero, image))

\* C3 (as stated): both encoders end the records with the five bytes
\* FC FF FF FF 7F, and the empty image encodes to
\* 45 43 4D 00 FC FF FF FF 7F 00 00 00 00.
C3_EndMarker ==
    (pc \in {"ecm_done", "ecms_done"} /\ result = 0)
    => /\ Len(ecm) >= 13
       /\ Slice(ecm, Len(ecm) - 9, Len(ecm) - 4) = <<252, 255, 255, 255, 127>>
       /\ image = <<>>
            => ecm = <<69, 67, 77, 0, 252, 255, 255, 255, 127, 0, 0, 0, 0>>

C6_DecodeEncodeDecode ==
    (round = 1 /\ pc = "unecm_done") => (result = 0 /\ outfile = hist.out0)

\* Packed BCD of n < 100.
Bcd(n) == 16 * (n \div 10) + (n % 10)

\* Minute, second, frame of sector ordinal, 75 frames a second, 150 frames
\* of pregap.
PositionMsf(ordinal) ==
    << Bcd((ordinal + 150) \div 4500), Bcd(((ordinal + 150) \div 75) % 60),
       Bcd((ordinal + 150) % 75) >>

\* The address bytes of the sector a step of the sector loop appends.
WrittenAddress == Slice(outfile', Len(outfile) + 12, Len(outfile) + 15)

\* A step of the sector loop of unecmify that writes a sector.
WritesSector == pc = "unecm_sectors" /\ Len(outfile') = Len(outfile) + 2352

\* C7 (as stated): every sector written for a sector record of any type has
\* at offsets 12..14 the BCD minute:second:frame of ordinal + 150, ordinal
\* being the bytes written before it divided by 2352.
C7_AddressFromPosition ==
    [][WritesSector => WrittenAddress = PositionMsf(Len(outfile) \div 2352)]_vars

\* C7 (amended): a sector written for a Mode 2 Form 1 or Form 2 record has
\* at offsets 12..14 the BCD minute:second:frame of ordinal + 150; a sector
\* written for a Mode 1 record has there the three address bytes stored in
\* the record.
C7_AddressByType ==
    [][WritesSector =>
          IF type = SECTOR_TYPE_MODE1
          THEN WrittenAddress = Slice(ecm, inpos, inpos + 3)
          ELSE WrittenAddress = PositionMsf(Len(outfile) \div 2352)]_vars

\* C7 witness: the decoder has written a Mode 2 Form 2 sector as the second
\* sector of its output, with address 00:02:01.
C7_Witness ==
    /\ pc = "unecm" /\ round = 1 /\ type = SECTOR_TYPE_MODE2_FORM2
    /\ Len(outfile) = 2 * 2352
    /\ Slice(outfile, 2352 + 12, 2352 + 15) = <<0, 2, 1>>

\* The stream holds, after the magic header, one record (T, K) with paylen
\* bytes of payload, then the end marker and four bytes.
OneRecord(T, K, paylen) ==
    /\ read_type_count(ecm, 4).ok
    /\ read_type_count(ecm, 4).type = T
    /\ read_type_count(ecm, 4).num
         = [hi |-> (K - 1) \div 65536, lo |-> (K - 1) % 65536]
    /\ read_type_count(ecm, read_type_count(ecm, 4).pos + paylen).ok
    /\ read_type_count(ecm, read_type_count(ecm, 4).pos + paylen).num
         = NumSentinel
    /\ Len(ecm)
         = read_type_count(ecm, read_type_count(ecm, 4).pos + paylen).pos + 4

\* The bytes a record stores for a sector of type T.
StoredSize(T) == IF T = 1 THEN 2051 ELSE IF T = 2 THEN 2052 ELSE 2328

-----------------------------------------------------------------------------
(* Properties of the decoder on damaged streams.                            *)

\* C11: a stream that is well formed up to its end-of-records marker but
\* whose four trailing bytes differ in one byte from the EDC the decoder
\* accumulated is decoded to the end and unecmify returns non-zero.
C11_TamperedTrailerRejected ==
    (hist.damage = "trailer" /\ pc = "unecm_done")
        => (result # 0 /\ inpos = Len(ecm))

\* C11 witness: the output of an encoder for a Mode 1 sector, the last byte
\* of its trailing EDC changed, has been decoded: the sector was written,
\* the trailer read, and unecmify returned 1.
C11_Witness ==
    /\ hist.damage = "trailer" /\ pc = "unecm_done" /\ result = 1
    /\ hist.at = Len(ecm) - 1 /\ inpos = Len(ecm)
    /\ read_type_count(ecm, 4).type = SECTOR_TYPE_MODE1
    /\ Len(outfile) = SECTOR_SIZE_RAW

\* C12: unecmify returns non-zero on every proper prefix of an encoder's
\* output.
C12_PrefixRejected ==
    (hist.damage = "cut" /\ pc = "unecm_done") => result # 0

\* C12 witness: the output of an encoder for a Mode 2 Form 1 sector, cut two
\* bytes before its end (inside the trailing EDC), has been decoded: the
\* sector was written, the end-of-records marker read, and unecmify
\* returned 1.
C12_Witness ==
    /\ hist.damage = "cut" /\ pc = "unecm_done" /\ result = 1
    /\ type = SECTOR_TYPE_MODE2_FORM1 /\ Len(outfile) = SECTOR_SIZE_RAW
    /\ read_type_count(ecm, Len(ecm) - 7).ok
    /\ read_type_count(ecm, Len(ecm) - 7).num = NumSentinel
    /\ inpos = Len(ecm)

\* C13: when the first four bytes of the stream are not 45 43 4D 00, or the
\* stream has fewer than four bytes, unecmify returns non-zero at once and
\* the output stays empty.
C13_BadMagicRejected ==
    (hist.damage \in {"magic", "short"} /\ pc # "call_unecmify")
        => (pc = "unecm_done" /\ result # 0 /\ outfile = <<>>)

\* C13 witness: a stream with records whose last magic byte was changed has
\* been rejected.
C13_Witness ==
    /\ hist.damage = "magic" /\ hist.at = 3 /\ pc = "unecm_done"
    /\ result = 1 /\ Len(ecm) > SECTOR_USER_DATA

\* C14: where the stream has a type/count of more than five bytes,
\* read_type_count fails; where it has one with num + 1 >= 2^31 (other than
\* the sentinel), read_type_count succeeds; in both cases unecmify returns
\* non-zero from that record on and writes nothing more to the output.
C14_InvalidCountRejected ==
    [][(pc = "unecm" /\ hist.damage \in {"longcount", "hugecount"}
           /\ inpos = hist.at)
       => /\ pc' = "unecm_done" /\ result' # 0 /\ outfile' = outfile
          /\ read_type_count(ecm, inpos).ok = (hist.damage = "hugecount")]_vars

\* C14 witness: a type/count with num = 0xFFFFFFFE put before the
\* end-of-records marker of a stream with a sector record has been rejected
\* after the sector was written.
C14_Witness ==
    /\ hist.damage = "hugecount" /\ pc = "unecm_done" /\ result = 1
    /\ hist.at > 4 /\ inpos = hist.at + 5
    /\ At(ecm, hist.at + 4) = 63
    /\ type = SECTOR_TYPE_MODE1 /\ Len(outfile) = SECTOR_SIZE_RAW

-----------------------------------------------------------------------------
(* Properties of the records of an encoder's output.                        *)

\* The type/counts of stream from offset pos on, each followed by the
\* payload its type and count call for, up to the first one of count 0
\* (num = 0xFFFFFFFF): whether there is one, the <<type, count>> before it,
\* the image bytes they stand for, and the offset after it.
RECURSIVE StreamRecords(_, _, _, _)
StreamRecords(stream, pos, recs, raw) ==
    LET r == read_type_count(stream, pos)
        count == r.num.hi * 65536 + r.num.lo + 1
    IN  IF ~r.ok \/ (r.num # NumSentinel /\ r.num.hi >= 32768)
        THEN [ok |-> FALSE, recs |-> recs, raw |-> raw, end |-> r.pos]
        ELSE IF r.num = NumSentinel
        THEN [ok |-> TRUE, recs |-> recs, raw |-> raw, end |-> r.pos]
        ELSE IF r.type = SECTOR_TYPE_LITERAL
        THEN StreamRecords(stream, r.pos + count,
                           Append(recs, <<r.type, count>>), raw + count)
        ELSE StreamRecords(stream, r.pos + count * StoredSize(r.type),
                           Append(recs, <<r.type, count>>),
                           raw + count * SECTOR_SIZE_RAW)

\* C15: in the output of a successful run of ecmify or ecmify_streaming the
\* first type/count of count 0 met when reading record after record from the
\* header on is followed by exactly the four trailing bytes, and the records
\* before it, each of count >= 1, account for every byte of the image: the
\* count 0 is written once, after all data records.
C15_OnlyEndMarkerHasCountZero ==
    (pc \in {"ecm_done", "ecms_done"} /\ result = 0)
        => \E p \in {StreamRecords(ecm, 4, <<>>, 0)} :
              /\ p.ok
              /\ p.end + EDC_SIZE = Len(ecm)
              /\ p.raw = Len(image)
              /\ \A i \in 1 .. Len(p.recs) : p.recs[i][2] >= 1

\* C15 witness: ecmify_streaming has written two data records and the
\* end-of-records marker.
C15_Witness ==
    /\ pc = "ecms_done" /\ result = 0
    /\ Len(StreamRecords(ecm, 4, <<>>, 0).recs) = 2
    /\ StreamRecords(ecm, 4, <<>>, 0).end + EDC_SIZE = Len(ecm)

-----------------------------------------------------------------------------
(* Properties of the run counter of ecmify.                                 *)

\* C16 (as stated): the count ecmify writes for a run, whatever the length
\* of the image, is in [1, 2^31).
C16_CountInDomain ==
    run.pc = "flushed"
        => /\ run.emitted.hi < 32768
           /\ run.emitted.hi > 0 \/ run.emitted.lo >= 1

-----------------------------------------------------------------------------
(* Properties of sector_to_msf.                                             *)

\* C17: for every ordinal n whose minute value ((n + 150) / 75) / 60 is
\* below 100, sector_to_msf(n) writes that minute value, the second
\* ((n + 150) / 75) % 60 and the frame (n + 150) % 75, each in packed BCD;
\* ordinal 59 gives 00 02 59, 4500 gives 01 02 00, 10 gives 00 02 10 and
\* 6120 gives 01 23 45 (hexadecimal).
C17_MsfIsBcdOfFrame ==
    conv.pc = "done" =>
        /\ ((conv.sector + 150) \div 75) \div 60 < 100
              => conv.msf = << Bcd(((conv.sector + 150) \div 75) \div 60),
                               Bcd(((conv.sector + 150) \div 75) % 60),
                               Bcd((conv.sector + 150) % 75) >>
        /\ conv.sector = 59 => conv.msf = <<0, 2, 5 * 16 + 9>>
        /\ conv.sector = 4500 => conv.msf = <<1, 2, 0>>
        /\ conv.sector = 10 => conv.msf = <<0, 2, 16>>
        /\ conv.sector = 6120 => conv.msf = <<1, 2 * 16 + 3, 4 * 16 + 5>>

\* C17 witness: sector_to_msf has been called on the last ordinal of minute
\* 99 and wrote 99 59 74 in packed BCD.
C17_Witness ==
    /\ conv.pc = "done" /\ conv.sector = MaxOrdinal
    /\ conv.msf = <<9 * 16 + 9, 5 * 16 + 9, 7 * 16 + 4>>

-----------------------------------------------------------------------------
(* Properties of edc_compute.                                               *)

\* C18: for every seed s and byte sequences A and B,
\* edc_compute(edc_compute(s, A), B) = edc_compute(s, A followed by B).
C18_EdcChains ==
    chain.pc = "computed" => chain.parts = chain.whole

\* C18 witness: the EDC of a whole sector followed by a Mode 2 body has been
\* computed both ways from a non-zero seed, and is not the EDC of the second
\* chunk alone.
C18_Witness ==
    /\ chain.pc = "computed" /\ chain.seed # U32Zero
    /\ Len(chain.a) = SECTOR_SIZE_RAW /\ Len(chain.b) = SECTOR_SIZE_MODE2
    /\ chain.parts = chain.whole
    /\ chain.whole # edc_compute(chain.seed, chain.b)

-----------------------------------------------------------------------------
(* Properties of eccedc_init.                                               *)

\* All entries of the three lookup tables have been written.
TablesFull ==
    /\ once.f = 0 .. (LutSize - 1)
    /\ once.b = 0 .. (LutSize - 1)
    /\ once.e = 0 .. (LutSize - 1)

\* C19: with several threads calling eccedc_init, eccedc_init_tables is
\* entered at most once; a thread that has returned from a call of
\* eccedc_init finds all 256 entries of the three tables written; and once
\* the flag is set no table entry is written again (the 256 iterations of
\* the one run are all the writes there are).
C19_InitOnce ==
    once.pc = "threads" =>
        /\ once.runs <= 1
        /\ once.rows <= LutSize
        /\ \A th \in 1 .. NumThreads :
              (once.thread[th] = "out" /\ once.calls[th] > 0) => TablesFull
        /\ once.init_flag = "done" => (TablesFull /\ once.rows = LutSize)

\* C19 witness: every thread has made all its calls of eccedc_init and
\* returned; one thread ran eccedc_init_tables.
C19_Witness ==
    /\ once.pc = "threads" /\ once.runs = 1 /\ TablesFull
    /\ \A th \in 1 .. NumThreads :
          once.thread[th] = "out" /\ once.calls[th] = MaxCalls

-----------------------------------------------------------------------------
(* Properties of the scan of ecmify.                                        *)

\* C20 (as stated): in an iteration of the loop of ecmify that leaves the
\* run type literal, the check position advances by exactly one byte and
\* the count of the run by one.
C20_LiteralAdvancesOneByte ==
    [][(pc = "ecm" /\ pc' = "ecm" /\ curtype' = SECTOR_TYPE_LITERAL)
       => /\ incheckpos' = incheckpos + 1
          /\ curtypecount' \in {1, curtypecount + 1}]_vars

-----------------------------------------------------------------------------
(* Properties of the classifier's effect on its window.                     *)

\* C25: check_type_raw leaves all 2352 bytes of the window it examines as
\* they were on entry, whatever it returns, also when the P check of
\* ecc_verify fails while the address field is zeroed.
C25_WindowUnchanged ==
    [][(sect.pc # "classified" /\ sect'.pc = "classified")
       => sect'.sector = sect.sector]_vars

\* A Mode 2 Form 1 sector with an address that is not zero and a damaged
\* ECC P byte has been classified: its EDC matched, ecc_verify zeroed the
\* address and left at the P check.
C25_Witness ==
    /\ sect.pc = "classified"
    /\ sect.T = SECTOR_TYPE_MODE2_FORM1
    /\ sect.damage \in {OFFSET_MODE1_ECC_P, 2200}
    /\ sect.verdict = SECTOR_TYPE_LITERAL
    /\ Slice(sect.sector, ADDRESS_FIELD_OFFSET,
             ADDRESS_FIELD_OFFSET + ADDRESS_FIELD_SIZE)
          # Zeros(ADDRESS_FIELD_SIZE)

-----------------------------------------------------------------------------
(* Properties of the ECC and the four bytes at offset 12.                   *)

\* The address field: the four bytes at sector offsets 12 .. 15.
AddressField(sector) ==
    Slice(sector, ADDRESS_FIELD_OFFSET,
          ADDRESS_FIELD_OFFSET + ADDRESS_FIELD_SIZE)

\* The ECC P and Q bytes of a sector.
EccField(sector) == Slice(sector, OFFSET_MODE1_ECC_P, SECTOR_SIZE_RAW)

\* The sector differs from the generated one in one of the bytes 12 .. 15.
AddressDamaged ==
    /\ sect.damage >= ADDRESS_FIELD_OFFSET
    /\ sect.damage < ADDRESS_FIELD_OFFSET + ADDRESS_FIELD_SIZE

\* C26: of two Mode 2 Form 1 sectors that differ only in the bytes 12 .. 15,
\* eccedc_generate gives both the same ECC and ecc_verify with the address
\* zeroed the same verdict, the four bytes being as before afterwards; of
\* two such Mode 1 sectors ecc_verify gives different verdicts.
C26_EccIgnoresAddressOfForm1 ==
    AddressDamaged =>
       /\ (sect.pc = "regenerated" /\ sect.T = SECTOR_TYPE_MODE2_FORM1)
          => /\ EccField(sect.sector) = EccField(sect.clean)
             /\ AddressField(sect.sector) = AddressField(sect.entry)
       /\ (sect.pc = "verified" /\ sect.T = SECTOR_TYPE_MODE2_FORM1)
          => /\ sect.ecc = ecc_verify(sect.clean, TRUE, 2076).ok
             /\ AddressField(sect.sector) = AddressField(sect.entry)
       /\ (sect.pc = "verified" /\ sect.T = SECTOR_TYPE_MODE1)
          => sect.ecc # ecc_verify(sect.clean, FALSE, OFFSET_MODE1_ECC_P).ok

\* A Mode 2 Form 1 sector whose mode byte was changed has passed ecc_verify.
C26_Witness ==
    /\ sect.pc = "verified" /\ sect.T = SECTOR_TYPE_MODE2_FORM1
    /\ sect.damage = OFFSET_MODE /\ sect.ecc
    /\ AddressField(sect.sector) # AddressField(sect.clean)

-----------------------------------------------------------------------------
(* Properties of the records of ecmify_streaming.                           *)

\* What a record stores of the sector w of type T: address and user data
\* (Mode 1), or the second subheader copy and what follows up to the ECC
\* (Form 1) or up to the EDC (Form 2).
StoredPayload(w, T) ==
    IF T = SECTOR_TYPE_MODE1
    THEN Slice(w, 12, 15) \o Slice(w, 16, 2064)
    ELSE IF T = SECTOR_TYPE_MODE2_FORM1 THEN Slice(w, 20, 2072)
    ELSE Slice(w, 20, 2348)

\* One record per window of 2352 bytes read from pos on: (T, 1) and the
\* stored payload for a whole window of sector type T, (0, n) and the n bytes
\* for a window of n bytes that is literal.
RECURSIVE WindowRecords(_, _)
WindowRecords(img, pos) ==
    IF pos >= Len(img) THEN <<>>
    ELSE LET w == Slice(img, pos, Min(pos + 2352, Len(img)))
             T == IF Len(w) < 2352 THEN SECTOR_TYPE_LITERAL
                  ELSE check_type_raw(w).type
         IN  (IF T = SECTOR_TYPE_LITERAL
              THEN write_type_count(SECTOR_TYPE_LITERAL, Len(w)) \o w
              ELSE write_type_count(T, 1) \o StoredPayload(w, T))
             \o WindowRecords(img, pos + 2352)

-----------------------------------------------------------------------------
(* Properties of the sector loop of the decoder.                            *)

\* C24: an iteration of the sector loop of unecmify either finds the whole
\* stored payload of the sector in the stream and appends one sector of 2352
\* bytes to the output, or, the stream ending inside the payload, makes
\* unecmify return non-zero with the output as it was before that sector.
C24_WholeSectorsOnly ==
    [][pc = "unecm_sectors"
       => IF Len(ecm) - inpos < StoredSize(type)
          THEN pc' = "unecm_done" /\ result' # 0 /\ outfile' = outfile
          ELSE /\ Len(outfile') = Len(outfile) + SECTOR_SIZE_RAW
               /\ SubSeq(outfile', 1, Len(outfile)) = outfile]_vars

\* The stream of a two-sector image was cut inside the payload of the second
\* sector: unecmify has returned non-zero, the first sector written.
C24_Witness ==
    /\ pc = "unecm_done" /\ round = 3 /\ hist.damage = "cut"
    /\ type # SECTOR_TYPE_LITERAL /\ result # 0
    /\ inpos = Len(ecm)
    /\ Len(outfile) = SECTOR_SIZE_RAW

-----------------------------------------------------------------------------
(* Properties of the decoding of an encoder's output.                       *)

\* C27: unecmify applied to what ecmify or ecmify_streaming wrote for an
\* image returns 0, having read the whole stream: the EDC it accumulated
\* over what it regenerated is the EDC stored in the trailer.
C27_EncoderOutputDecodes ==
    (round \in {1, 2} /\ pc = "unecm_done")
        => /\ result = 0
           /\ inpos = Len(ecm)
           /\ Trailer = edc_write_bytes(checkedc)

\* The output of ecmify for an image with a Mode 2 sector has been decoded
\* with success although the sector written is not the sector of the image
\* (its address differs, outside what the EDC covers).
C27_Witness ==
    /\ round = 1 /\ pc = "unecm_done" /\ result = 0
    /\ outfile # image
    /\ Len(outfile) = Len(image)
    /\ Trailer = edc_write_bytes(checkedc)

-----------------------------------------------------------------------------
(* Properties of the end-of-records marker in the decoder.                  *)

\* C28: unecmify leaves its record loop for the trailer check exactly when
\* the num it decoded is 0xFFFFFFFF, whatever the type bits and the bits of
\* the fifth byte beyond bit 31: no type/count of another num ends a
\* decoding with success, every five-byte type/count with num = 0xFFFFFFFF
\* in place of the marker does, the marker write_type_count(0, 0) writes
\* is accepted like FC FF FF FF 7F, and the stream of the magic header,
\* FC FF FF FF 7F and 00 00 00 00 decodes with success to an empty output.
C28_MarkerIsNumAllOnes ==
    /\ [][(pc = "unecm" /\ read_type_count(ecm, inpos).ok)
          => IF read_type_count(ecm, inpos).num = [hi |-> 65535, lo |-> 65535]
             THEN /\ pc' = "unecm_done" /\ outfile' = outfile
                  /\ result' = 0
                       <=> Slice(ecm, read_type_count(ecm, inpos).pos, Len(ecm))
                             = edc_write_bytes(checkedc)
             ELSE ~(pc' = "unecm_done" /\ result' = 0)]_vars
    /\ [](/\ (pc = "unecm_done" /\ hist.damage = "marker")
             => /\ result = 0
                /\ Put(ecm, hist.at, <<252, 255, 255, 255, 127>>)
                     = HandStream(outfile)
          /\ (pc = "unecm_done" /\ round \in {1, 2})
             => /\ Slice(ecm, Len(ecm) - 9, Len(ecm) - 4)
                     = write_type_count(0, 0)
                /\ result = 0
          /\ (pc = "unecm_done" /\ round = 0
              /\ ecm = MagicHeader \o <<252, 255, 255, 255, 127, 0, 0, 0, 0>>)
             => (result = 0 /\ outfile = <<>>))

\* The stream of the magic header, FF FF FF FF 3F (a marker with type bits 3
\* and no bit beyond bit 31) and 00 00 00 00 has been decoded with success.
C28_Witness ==
    /\ pc = "unecm_done" /\ hist.damage = "marker" /\ result = 0
    /\ ecm = MagicHeader \o <<255, 255, 255, 255, 63, 0, 0, 0, 0>>
    /\ outfile = <<>>

-----------------------------------------------------------------------------
(* Properties of the scan of ecmify on long images.                         *)

\* C21 (as stated): a window of fewer than 2352 bytes is classified only
\* when fewer than 2352 bytes of the image remain from the check position
\* on, the queue being refilled before the classification whenever it holds
\* fewer than 2352 bytes and input remains unread.
C21_ShortWindowOnlyAtEnd ==
    (~scan.first_run /\ scan.window.n < SECTOR_SIZE_RAW)
        => scan.intotallength - scan.window.at < SECTOR_SIZE_RAW


\* C29: at the top of every iteration of the loop of ecmify, inbufferpos =
\* incheckpos + dataavail, inbufferpos <= intotallength and inqueuestart +
\* dataavail <= 1048576; every refill read so far and every window of 2352
\* bytes classified so far lay inside the 1048576 bytes of the queue, the
\* window holding the bytes of the image from the check position on.
C29_QueueInvariant ==
    scan.pc = "loop"
        => /\ scan.inbufferpos = scan.incheckpos + scan.dataavail
           /\ scan.inbufferpos <= scan.intotallength
           /\ scan.inqueuestart >= 0 /\ scan.dataavail >= 0
           /\ scan.inqueuestart + scan.dataavail <= 1048576
           /\ scan.read.q >= 0 /\ scan.read.q + scan.read.n <= 1048576
           /\ (~scan.first_run /\ scan.window.n = SECTOR_SIZE_RAW)
              => /\ scan.window.q >= 0
                 /\ scan.window.q + SECTOR_SIZE_RAW <= 1048576
                 /\ scan.window.f = scan.window.at

\* The queue has been refilled while it held the 1936 bytes left after 445
\* windows, and the window at its head, the bytes moved to the front and
\* the first of the bytes read, has been classified.
C29_Witness ==
    /\ scan.pc = "loop"
    /\ scan.read.q = ScanCapacity % SECTOR_SIZE_RAW
    /\ scan.window.q = 0 /\ scan.window.n = SECTOR_SIZE_RAW
    /\ scan.window.at = (ScanCapacity \div SECTOR_SIZE_RAW) * SECTOR_SIZE_RAW
    /\ scan.window.f = scan.window.at


-----------------------------------------------------------------------------
(* Properties of the end of the loop of ecmify.                             *)

\* C30 (as stated): whatever the length of the image, the loop of ecmify is
\* left only when no byte of the image is left to examine, and the counts
\* of the runs flushed add up to the length of the image (here, of the one
\* literal run: the count flushed is its length, and nothing is flushed
\* only for no bytes).
C30_LoopEndsWithAllBytesFlushed ==
    /\ run.pc # "loop" => run.left = 0
    /\ run.pc = "flushed" => run.emitted = run.total
    /\ run.pc = "empty" => run.total = [hi |-> 0, lo |-> 0]

=============================================================================
